---- MODULE Spec2Model ----
(***************************************************************************)
(* Lab-data consolidation of Backend/Utils/Tabs/lab_postprocessor.py.      *)
(*                                                                         *)
(* Python values are modelled as records [t, s, n]:                        *)
(*   t = "absent"  the key is missing from the dict                        *)
(*   t = "none"    None                                                    *)
(*   t = "str"     a str, s is its sequence of code points                 *)
(*   t = "num"     a number, n is its value in tenths (5.2 is 52)          *)
(* A biomarker dict is a record of its six keys plus `current`; `current`  *)
(* is the nested dict of the legacy shape, with present = FALSE when the   *)
(* dict has no "current" key, and `trend` is the list under the legacy     *)
(* "trend" key, empty when there is none.                                  *)
(***************************************************************************)
EXTENDS Integers, Sequences, FiniteSets, TLC

VARIABLES
    pc,                 \* which function has been applied to the input
    biomarker_entries,  \* the records of one biomarker, one per document
    empty_flags,        \* is_empty_biomarker of each record
    trend,              \* result of build_trend_from_values
    merged,             \* result of merge_biomarker_data
    consolidated_data,  \* result of postprocess_lab_data, input of format_for_ui
    formatted,          \* result of format_for_ui
    raw_lab_data,       \* the per-document extraction results
    use_ai_refinement,  \* the flag given to process_lab_data_for_ui
    clinical_interp_list,    \* the clinical_interpretation lists of the documents
    unique_interpretations,  \* result of consolidate_clinical_interpretations
    rerun,              \* outcome of a second process_lab_data_for_ui call
    model_response,     \* what the Gemini call of the refinement came back with
    refined,            \* result of refine_clinical_interpretations_with_ai
    data_pool,          \* rows of the table patient_data_pool
    store_call,         \* arguments and return value of the last store_patient_data
    requests,           \* the POST /api/patient/all requests, by request
    lab_run             \* the run of process_individual_lab_results_gemini

entryVars == <<biomarker_entries, empty_flags, trend, merged>>
formatVars == <<consolidated_data, formatted>>
inputVars == <<raw_lab_data, use_ai_refinement>>
interpVars == <<clinical_interp_list, unique_interpretations>>
otherVars == <<model_response, refined, data_pool, store_call, requests, lab_run>>
vars == <<pc, biomarker_entries, empty_flags, trend, merged, consolidated_data,
          formatted, raw_lab_data, use_ai_refinement, clinical_interp_list,
          unique_interpretations, rerun, model_response, refined, data_pool,
          store_call, requests, lab_run>>

----------------------------------------------------------------------------
(* Python values *)

Absent == [t |-> "absent", s |-> <<>>, n |-> 0]
None == [t |-> "none", s |-> <<>>, n |-> 0]
Str(codes) == [t |-> "str", s |-> codes, n |-> 0]
Num(tenths) == [t |-> "num", s |-> <<>>, n |-> tenths]

\* dict.get(key): a missing key reads as None
Get(x) == IF x.t = "absent" THEN None ELSE x

\* dict.get(key, default)
GetOr(x, default) == IF x.t = "absent" THEN default ELSE x

\* len(str(x)) for the values a source_context takes: str(None) is "None"
StrLen(x) == IF x.t = "str" THEN Len(x.s) ELSE IF x.t = "none" THEN 4 ELSE 0

\* a < b on str: code-point lexicographic order
RECURSIVE SeqLess(_, _)
SeqLess(a, b) ==
    IF b = <<>> THEN FALSE
    ELSE IF a = <<>> THEN TRUE
    ELSE IF Head(a) # Head(b) THEN Head(a) < Head(b)
    ELSE SeqLess(Tail(a), Tail(b))

StrLess(x, y) == SeqLess(x.s, y.s)

\* string literals of the source, as code points
EmptyStr == Str(<<>>)
NA == Str(<<78, 65>>)
Pending == Str(<<80, 101, 110, 100, 105, 110, 103>>)
Normal == Str(<<78, 111, 114, 109, 97, 108>>)
High == Str(<<72, 105, 103, 104>>)
Low == Str(<<76, 111, 119>>)
Critical == Str(<<67, 114, 105, 116, 105, 99, 97, 108>>)

Increasing == Str(<<105, 110, 99, 114, 101, 97, 115, 105, 110, 103>>)
Decreasing == Str(<<100, 101, 99, 114, 101, 97, 115, 105, 110, 103>>)
Stable == Str(<<115, 116, 97, 98, 108, 101>>)
InsufficientData ==
    Str(<<105, 110, 115, 117, 102, 102, 105, 99, 105, 101, 110, 116, 95, 100, 97,
          116, 97>>)

\* sample strings of the inputs
Date0110 == Str(<<50, 48, 50, 52, 45, 48, 49, 45, 49, 48>>)    \* "2024-01-10"
Date0302 == Str(<<50, 48, 50, 52, 45, 48, 51, 45, 48, 50>>)    \* "2024-03-02"
Quest == Str(<<81, 117, 101, 115, 116>>)                       \* "Quest"
QuestJan == Str(<<81, 117, 101, 115, 116, 32, 74, 97, 110>>)   \* "Quest Jan"
QuestMar == Str(<<81, 117, 101, 115, 116, 32, 77, 97, 114>>)   \* "Quest Mar"
NgMl == Str(<<110, 103, 47, 109, 76>>)                         \* "ng/mL"

----------------------------------------------------------------------------
(* is_empty_biomarker *)

\* a truthiness test (`not value`) in place of the three comparisons
is_empty_falsy(biomarker_data) ==
    LET value == IF biomarker_data.current.present
                 THEN Get(biomarker_data.current.value)
                 ELSE Get(biomarker_data.value)
    IN  value = NA \/ value = None \/ value = EmptyStr \/ value = Num(0)

is_empty_biomarker(biomarker_data) ==
    LET value == IF biomarker_data.current.present
                 THEN Get(biomarker_data.current.value)
                 ELSE Get(biomarker_data.value)
    IN  value = NA \/ value = None \/ value = EmptyStr

----------------------------------------------------------------------------
(* build_trend_from_values *)

\* the shape test left out: every entry read as a flat record
EffectiveDataFlat(entry) == entry

\* data = entry.get("current", {}) if "current" in entry else entry
EffectiveData(entry) == IF entry.current.present THEN entry.current ELSE entry

\* the skip test of the loop body
SkipEntry(date, value) ==
    date = NA \/ value = NA \/ date = None \/ value = None \/ value = EmptyStr

TrendPoint(data) ==
    [date |-> Get(data.date),
     value |-> Get(data.value),
     status |-> Get(data.status),
     source_context |-> GetOr(data.source_context, EmptyStr)]

\* position of key (date, value) in the insertion-ordered dict `seen`, 0 if new
SeenIndex(seen, date, value) ==
    IF \E i \in 1..Len(seen) : seen[i].date = date /\ seen[i].value = value
    THEN CHOOSE i \in 1..Len(seen) : seen[i].date = date /\ seen[i].value = value
    ELSE 0

\* the collision test without the length comparison: the first record stays
MoreInfoNever(data, kept) == FALSE

\* the comparison made inclusive: a later record of equal length replaces
MoreInfoOrEqual(data, kept) ==
    StrLen(GetOr(data.source_context, EmptyStr)) >= StrLen(kept.source_context)

\* the replacement test on a (date, value) collision
MoreInfo(data, kept) ==
    StrLen(GetOr(data.source_context, EmptyStr)) > StrLen(kept.source_context)

\* one iteration of the loop over biomarker_entries
SeenStep(seen, entry) ==
    LET data == EffectiveData(entry)
        date == Get(data.date)
        value == Get(data.value)
        i == SeenIndex(seen, date, value)
    IN  IF SkipEntry(date, value) THEN seen
        ELSE IF i = 0 THEN Append(seen, TrendPoint(data))
        ELSE IF MoreInfo(data, seen[i]) THEN [seen EXCEPT ![i] = TrendPoint(data)]
        ELSE seen

RECURSIVE SeenAfter(_, _)
SeenAfter(seen, entries) ==
    IF entries = <<>> THEN seen
    ELSE SeenAfter(SeenStep(seen, Head(entries)), Tail(entries))

\* the list left in insertion order, as if the sort call were missing
InsertAtEnd(sorted, x) == Append(sorted, x)

\* list.sort(key=date): stable insertion of x after every element with key <= x
RECURSIVE InsertByDate(_, _)
InsertByDate(sorted, x) ==
    IF sorted = <<>> THEN <<x>>
    ELSE IF StrLess(x.date, Head(sorted).date) THEN <<x>> \o sorted
    ELSE <<Head(sorted)>> \o InsertByDate(Tail(sorted), x)

RECURSIVE SortByDate(_, _)
SortByDate(sorted, rest) ==
    IF rest = <<>> THEN sorted
    ELSE SortByDate(InsertByDate(sorted, Head(rest)), Tail(rest))

build_trend_from_values(entries) == SortByDate(<<>>, SeenAfter(<<>>, entries))

----------------------------------------------------------------------------
(* merge_biomarker_data *)

EmptyCurrent ==
    [value |-> None, unit |-> None, date |-> None, status |-> None,
     reference_range |-> None]

CurrentOf(data) ==
    [value |-> Get(data.value), unit |-> Get(data.unit), date |-> Get(data.date),
     status |-> Get(data.status), reference_range |-> Get(data.reference_range)]

ValidEntries(biomarker_list) ==
    SelectSeq(biomarker_list, LAMBDA b : ~is_empty_biomarker(b))

\* the sort key of an entry: data.get("date", "")
SortDate(entry) == GetOr(EffectiveData(entry).date, EmptyStr)

\* sorting two or more keys compares them; None is not orderable (TypeError)
SortRaises(entries) ==
    Len(entries) >= 2 /\ \E i \in 1..Len(entries) : SortDate(entries[i]).t # "str"

\* sorted_entries.sort(key=date, reverse=True): stable, so x goes after every
\* element whose key is >= its own
RECURSIVE InsertByDateDesc(_, _)
InsertByDateDesc(sorted, x) ==
    IF sorted = <<>> THEN <<x>>
    ELSE IF StrLess(SortDate(Head(sorted)), SortDate(x)) THEN <<x>> \o sorted
    ELSE <<Head(sorted)>> \o InsertByDateDesc(Tail(sorted), x)

RECURSIVE SortEntriesDesc(_, _)
SortEntriesDesc(sorted, rest) ==
    IF rest = <<>> THEN sorted
    ELSE SortEntriesDesc(InsertByDateDesc(sorted, Head(rest)), Tail(rest))

\* the first entry taken without sorting
MostRecentDataUnsorted(entries) == EffectiveData(entries[1])

\* sorted_entries[0][1]
MostRecentData(entries) == EffectiveData(SortEntriesDesc(<<>>, entries)[1])

\* a record of the extraction is a dict; JSON null, a str, a number or a
\* list in its place is modelled as the Python value itself
IsDict(record) == "current" \in DOMAIN record

\* the fields of the first record returned where no record is valid, in
\* place of the all-null current
merge_biomarker_data_first_record(biomarker_list) ==
    LET valid_entries == ValidEntries(biomarker_list)
    IN  IF \E i \in 1..Len(biomarker_list) : ~IsDict(biomarker_list[i])
        THEN [raised |-> TRUE, current |-> EmptyCurrent, trend |-> <<>>]
        ELSE IF valid_entries = <<>>
        THEN [raised |-> FALSE,
              current |-> IF biomarker_list = <<>> THEN EmptyCurrent
                          ELSE CurrentOf(EffectiveData(biomarker_list[1])),
              trend |-> <<>>]
        ELSE IF SortRaises(valid_entries)
        THEN [raised |-> TRUE, current |-> EmptyCurrent, trend |-> <<>>]
        ELSE [raised |-> FALSE,
              current |-> CurrentOf(MostRecentData(valid_entries)),
              trend |-> build_trend_from_values(valid_entries)]

\* raised: is_empty_biomarker applied to a record that is no dict (TypeError
\* of `"current" in None`, AttributeError of .get), or the sort
merge_biomarker_data(biomarker_list) ==
    LET valid_entries == ValidEntries(biomarker_list)
    IN  IF \E i \in 1..Len(biomarker_list) : ~IsDict(biomarker_list[i])
        THEN [raised |-> TRUE, current |-> EmptyCurrent, trend |-> <<>>]
        ELSE IF valid_entries = <<>>
        THEN [raised |-> FALSE, current |-> EmptyCurrent, trend |-> <<>>]
        ELSE IF SortRaises(valid_entries)
        THEN [raised |-> TRUE, current |-> EmptyCurrent, trend |-> <<>>]
        ELSE [raised |-> FALSE,
              current |-> CurrentOf(MostRecentData(valid_entries)),
              trend |-> build_trend_from_values(valid_entries)]

----------------------------------------------------------------------------
(* consolidate_panel *)

\* the records found under biomarker_name, in panel_list order
RECURSIVE CollectEntries(_, _)
CollectEntries(panel_list, biomarker_name) ==
    IF panel_list = <<>> THEN <<>>
    ELSE (IF biomarker_name \in DOMAIN Head(panel_list)
          THEN <<Head(panel_list)[biomarker_name]>>
          ELSE <<>>) \o CollectEntries(Tail(panel_list), biomarker_name)

\* every expected name emitted, the never-seen ones as empty structures
consolidate_panel_all_names(panel_list, biomarker_names) ==
    LET results == [name \in biomarker_names |->
                        merge_biomarker_data(CollectEntries(panel_list, name))]
    IN  [raised |-> \E name \in biomarker_names : results[name].raised,
         panel |-> [name \in biomarker_names |->
                       [current |-> results[name].current, trend |-> results[name].trend]]]

\* the loop run over the keys found in the panel dicts, not the expected names
consolidate_panel_any_key(panel_list, biomarker_names) ==
    LET seen == UNION {DOMAIN panel_list[i] : i \in 1..Len(panel_list)}
        results == [name \in seen |->
                        merge_biomarker_data(CollectEntries(panel_list, name))]
    IN  [raised |-> \E name \in seen : results[name].raised,
         panel |-> [name \in seen |->
                       [current |-> results[name].current, trend |-> results[name].trend]]]

\* raised: merge_biomarker_data raised for one of the names
consolidate_panel(panel_list, biomarker_names) ==
    LET seen == {name \in biomarker_names : CollectEntries(panel_list, name) # <<>>}
        results == [name \in seen |->
                        merge_biomarker_data(CollectEntries(panel_list, name))]
    IN  [raised |-> \E name \in seen : results[name].raised,
         panel |-> [name \in seen |->
                       [current |-> results[name].current, trend |-> results[name].trend]]]

----------------------------------------------------------------------------
(* consolidate_clinical_interpretations *)

\* the code points str.strip() removes
Whitespace == {9, 10, 11, 12, 13, 28, 29, 30, 31, 32}

RECURSIVE LStrip(_)
LStrip(s) == IF s # <<>> /\ Head(s) \in Whitespace THEN LStrip(Tail(s)) ELSE s

RECURSIVE RStrip(_)
RStrip(s) ==
    IF s # <<>> /\ s[Len(s)] \in Whitespace THEN RStrip(SubSeq(s, 1, Len(s) - 1)) ELSE s

Strip(s) == RStrip(LStrip(s))

\* str.lower() on ASCII letters
Lower(s) == [i \in 1..Len(s) |-> IF s[i] \in 65..90 THEN s[i] + 32 ELSE s[i]]

RECURSIVE Flatten(_)
Flatten(lists) == IF lists = <<>> THEN <<>> ELSE Head(lists) \o Flatten(Tail(lists))

\* the seen-set holding the strings as written, so that only exact repeats match
RECURSIVE UniqueInterpretationsCaseSensitive(_, _, _)
UniqueInterpretationsCaseSensitive(all, seen, unique) ==
    IF all = <<>> THEN unique
    ELSE LET clean_interp == Strip(Head(all).s)
         IN  IF clean_interp = <<>> \/ clean_interp \in seen
             THEN UniqueInterpretationsCaseSensitive(Tail(all), seen, unique)
             ELSE UniqueInterpretationsCaseSensitive(Tail(all), seen \cup {clean_interp},
                                                     Append(unique, Str(clean_interp)))

RECURSIVE UniqueInterpretations(_, _, _)
UniqueInterpretations(all, seen, unique) ==
    IF all = <<>> THEN unique
    ELSE LET clean_interp == Strip(Head(all).s)
         IN  IF clean_interp = <<>> \/ Lower(clean_interp) \in seen
             THEN UniqueInterpretations(Tail(all), seen, unique)
             ELSE UniqueInterpretations(Tail(all), seen \cup {Lower(clean_interp)},
                                        Append(unique, Str(clean_interp)))

\* raised: an element that is no str has no strip() (AttributeError)
consolidate_clinical_interpretations(interpretations_list) ==
    LET all_interpretations == Flatten(interpretations_list)
    IN  IF \E i \in 1..Len(all_interpretations) : all_interpretations[i].t # "str"
        THEN [raised |-> TRUE, list |-> <<>>]
        ELSE [raised |-> FALSE,
              list |-> UniqueInterpretations(all_interpretations, {}, <<>>)]

----------------------------------------------------------------------------
(* DataPool of Backend/data_pool.py: a table of rows [mrn, data], the data  *)
(* column holding json.dumps of the dict, read back with json.loads         *)

\* the value is a dict; a dict is [kind, size, json, id]: size its number of
\* keys, json whether json.dumps accepts it, id naming its content
IsDataDict(data) == "kind" \in DOMAIN data /\ data.kind = "dict"

\* `not data`: None, "", 0 and the empty dict and list
Falsy(data) ==
    IF "kind" \in DOMAIN data THEN data.size = 0
    ELSE data = None \/ data = EmptyStr \/ data = Num(0)

\* INSERT without OR REPLACE into a table without the primary key
InsertRow(rows, mrn, data) == rows \cup {[mrn |-> mrn, data |-> data]}

\* INSERT OR REPLACE with mrn TEXT PRIMARY KEY: the row of the key, if any,
\* is deleted and the new row inserted
InsertOrReplace(rows, mrn, data) ==
    {r \in rows : r.mrn # mrn} \cup {[mrn |-> mrn, data |-> data]}

\* db_ok: connect, execute and commit went through (no sqlite3.Error)
store_patient_data(rows, mrn, data, db_ok) ==
    IF mrn.t # "str" \/ mrn.s = <<>> \/ Strip(mrn.s) = <<>>
    THEN [returned |-> FALSE, rows |-> rows]
    ELSE IF Falsy(data) \/ ~IsDataDict(data)
    THEN [returned |-> FALSE, rows |-> rows]
    ELSE IF ~data.json \/ ~db_ok
    THEN [returned |-> FALSE, rows |-> rows]
    ELSE [returned |-> TRUE, rows |-> InsertOrReplace(rows, mrn, data)]

\* a read that finds no row, whatever the table holds
get_patient_data_no_row(rows, mrn, db_ok) == None

\* the dict of the row plus the key pool_updated_at; None when there is no
\* row and when the read raised
get_patient_data(rows, mrn, db_ok) ==
    IF db_ok /\ \E r \in rows : r.mrn = mrn
    THEN [data |-> (CHOOSE r \in rows : r.mrn = mrn).data, pool_updated_at |-> TRUE]
    ELSE None

delete_patient_data(rows, mrn) == {r \in rows : r.mrn # mrn}

clear_pool(rows) == {}

----------------------------------------------------------------------------
(* refine_clinical_interpretations_with_ai *)

\* response: what the model call produced: kind "raises" (the call or
\* json.loads raised), "invalid" (parsed, but no list of str), "list" (items)
refine_clinical_interpretations_with_ai(raw_interpretations, response) ==
    IF raw_interpretations = <<>> THEN <<>>
    ELSE IF response.kind = "list"
    THEN IF Len(response.items) > 6 THEN SubSeq(response.items, 1, 6)
         ELSE response.items
    ELSE raw_interpretations

----------------------------------------------------------------------------
(* postprocess_lab_data *)

TumorMarkerNames == {"CEA", "NSE", "proGRP", "CYFRA_21_1"}
CBCNames == {"WBC", "Hemoglobin", "Platelets", "ANC"}
MetabolicNames == {"Creatinine", "ALT", "AST", "Total Bilirubin"}

\* the wrapping left out: a dict given in place of the list yields no batch
BatchesListOnly(raw) == raw.list

\* isinstance(raw_lab_data, dict): a single dict is wrapped in a list
Batches(raw) == IF raw.kind = "dict" THEN <<raw.dict>> ELSE raw.list

\* a panel value that is a list extends the panel list, a dict is appended,
\* anything else (missing, None, ...) is skipped
RECURSIVE PanelList(_, _)
PanelList(batches, panel_name) ==
    IF batches = <<>> THEN <<>>
    ELSE LET field == Head(batches)[panel_name]
         IN  (IF field.kind = "list" THEN field.list
              ELSE IF field.kind = "dict" THEN <<field.dict>>
              ELSE <<>>) \o PanelList(Tail(batches), panel_name)

RECURSIVE InterpretationLists(_)
InterpretationLists(batches) ==
    IF batches = <<>> THEN <<>>
    ELSE (IF Head(batches).clinical_interpretation.kind = "list"
          THEN <<Head(batches).clinical_interpretation.list>>
          ELSE <<>>) \o InterpretationLists(Tail(batches))

\* the refinement run whatever use_ai_refinement says
postprocess_lab_data_ignores_flag(raw, ai_refinement, response) ==
    LET batches == Batches(raw)
        consolidated_tumor_markers ==
            consolidate_panel(PanelList(batches, "tumor_markers"), TumorMarkerNames)
        consolidated_cbc ==
            consolidate_panel(PanelList(batches, "complete_blood_count"), CBCNames)
        consolidated_metabolic ==
            consolidate_panel(PanelList(batches, "metabolic_panel"), MetabolicNames)
        consolidated_interpretations ==
            consolidate_clinical_interpretations(InterpretationLists(batches))
    IN  [raised |-> \/ consolidated_tumor_markers.raised
                    \/ consolidated_cbc.raised
                    \/ consolidated_metabolic.raised
                    \/ consolidated_interpretations.raised,
         data |-> [tumor_markers |-> consolidated_tumor_markers.panel,
                   complete_blood_count |-> consolidated_cbc.panel,
                   metabolic_panel |-> consolidated_metabolic.panel,
                   clinical_interpretation |->
                       refine_clinical_interpretations_with_ai(
                           consolidated_interpretations.list, response)]]

postprocess_lab_data(raw, ai_refinement, response) ==
    LET batches == Batches(raw)
        consolidated_tumor_markers ==
            consolidate_panel(PanelList(batches, "tumor_markers"), TumorMarkerNames)
        consolidated_cbc ==
            consolidate_panel(PanelList(batches, "complete_blood_count"), CBCNames)
        consolidated_metabolic ==
            consolidate_panel(PanelList(batches, "metabolic_panel"), MetabolicNames)
        consolidated_interpretations ==
            consolidate_clinical_interpretations(InterpretationLists(batches))
        refined_interpretations ==
            IF ai_refinement /\ consolidated_interpretations.list # <<>>
            THEN refine_clinical_interpretations_with_ai(
                     consolidated_interpretations.list, response)
            ELSE consolidated_interpretations.list
    IN  [raised |-> \/ consolidated_tumor_markers.raised
                    \/ consolidated_cbc.raised
                    \/ consolidated_metabolic.raised
                    \/ consolidated_interpretations.raised,
         data |-> [tumor_markers |-> consolidated_tumor_markers.panel,
                   complete_blood_count |-> consolidated_cbc.panel,
                   metabolic_panel |-> consolidated_metabolic.panel,
                   clinical_interpretation |-> refined_interpretations]]

----------------------------------------------------------------------------
(* format_for_ui *)

IsDigits(s) == s # <<>> /\ \A i \in 1..Len(s) : s[i] \in 48..57

RECURSIVE IntOfDigits(_)
IntOfDigits(s) ==
    IF s = <<>> THEN 0
    ELSE 10 * IntOfDigits(SubSeq(s, 1, Len(s) - 1)) + (s[Len(s)] - 48)

\* the plain decimal numerals float() parses here: digits, or digits "." digit
IsDecimal(s) ==
    \/ IsDigits(s)
    \/ /\ Len(s) >= 3
       /\ s[Len(s) - 1] = 46
       /\ IsDigits(SubSeq(s, 1, Len(s) - 2))
       /\ s[Len(s)] \in 48..57

DecimalTenths(s) ==
    IF IsDigits(s) THEN 10 * IntOfDigits(s)
    ELSE 10 * IntOfDigits(SubSeq(s, 1, Len(s) - 2)) + (s[Len(s)] - 48)

\* a float() that never raises: whatever does not parse counts as 0
PyFloatLenient(x) ==
    IF x.t = "num" THEN [ok |-> TRUE, n |-> x.n]
    ELSE IF x.t = "str" /\ IsDecimal(x.s) THEN [ok |-> TRUE, n |-> DecimalTenths(x.s)]
    ELSE [ok |-> TRUE, n |-> 0]

\* float(x): ok = FALSE stands for the ValueError (a str that is no numeral)
\* or TypeError (None) it raises
PyFloat(x) ==
    IF x.t = "num" THEN [ok |-> TRUE, n |-> x.n]
    ELSE IF x.t = "str" /\ IsDecimal(x.s) THEN [ok |-> TRUE, n |-> DecimalTenths(x.s)]
    ELSE [ok |-> FALSE, n |-> 0]

\* ((last - prev) / prev) * 100 > bound, for prev # 0. The double arithmetic
\* of the source is modelled exactly: on doubles that hold the readings
\* exactly the quotient of an exact 5% change multiplies to exactly 5.0, and
\* any other change of the readings used here is far from the threshold.
PctChangeAbove(last, prev, bound) ==
    IF prev > 0 THEN (last - prev) * 100 > bound * prev
    ELSE (last - prev) * 100 < bound * prev

\* ((last - prev) / prev) * 100 < bound, for prev # 0 (exact, as above)
PctChangeBelow(last, prev, bound) ==
    IF prev > 0 THEN (last - prev) * 100 < bound * prev
    ELSE (last - prev) * 100 > bound * prev

\* the thresholds taken inclusively (>= 5, <= -5)
calculate_trend_direction_inclusive(t) ==
    IF Len(t) < 2 THEN InsufficientData
    ELSE LET last_value == PyFloat(GetOr(t[Len(t)].value, Num(0)))
             prev_value == PyFloat(GetOr(t[Len(t) - 1].value, Num(0)))
         IN  IF ~last_value.ok \/ ~prev_value.ok THEN InsufficientData
             ELSE IF prev_value.n # 0
             THEN IF ~PctChangeBelow(last_value.n, prev_value.n, 5) THEN Increasing
                  ELSE IF ~PctChangeAbove(last_value.n, prev_value.n, -5) THEN Decreasing
                  ELSE Stable
             ELSE InsufficientData

calculate_trend_direction(t) ==
    IF Len(t) < 2 THEN InsufficientData
    ELSE LET last_value == PyFloat(GetOr(t[Len(t)].value, Num(0)))
             prev_value == PyFloat(GetOr(t[Len(t) - 1].value, Num(0)))
         IN  IF ~last_value.ok \/ ~prev_value.ok THEN InsufficientData
             ELSE IF prev_value.n # 0
             THEN IF PctChangeAbove(last_value.n, prev_value.n, 5) THEN Increasing
                  ELSE IF PctChangeBelow(last_value.n, prev_value.n, -5) THEN Decreasing
                  ELSE Stable
             ELSE InsufficientData

AbnormalStatuses == {High, Low, Critical}

format_biomarker(biomarker_data, name) ==
    LET current == biomarker_data.current
        t == biomarker_data.trend
    IN  [name |-> name,
         has_data |-> Get(current.value) \notin {None, NA, EmptyStr},
         current |-> [value |-> Get(current.value),
                      unit |-> Get(current.unit),
                      date |-> Get(current.date),
                      status |-> Get(current.status),
                      reference_range |-> Get(current.reference_range),
                      is_abnormal |-> Get(current.status) \in AbnormalStatuses],
         trend |-> t,
         trend_direction |-> IF Len(t) >= 2 THEN calculate_trend_direction(t) ELSE None]

PanelNames == {"tumor_markers", "complete_blood_count", "metabolic_panel"}

\* the truthiness test alone, without the comparison with "NA"
UsableDateTruthy(date) == date.t = "str" /\ date.s # <<>>

\* `if date and date != "NA"`: a str that is neither "" nor "NA"
UsableDate(date) == date.t = "str" /\ date.s # <<>> /\ date # NA

\* the (panel, biomarker name) pairs the loops over the three panels visit
Biomarkers(data) ==
    {pb \in PanelNames \X UNION {DOMAIN data[q] : q \in PanelNames} :
        pb[2] \in DOMAIN data[pb[1]]}

get_most_recent_date(data) ==
    LET all_dates == {d \in {Get(data[pb[1]][pb[2]].current.date) : pb \in Biomarkers(data)} :
                         UsableDate(d)}
    IN  IF all_dates = {} THEN None
        ELSE CHOOSE d \in all_dates : \A e \in all_dates : ~StrLess(d, e)

FormatPanel(panel) == [name \in DOMAIN panel |-> format_biomarker(panel[name], name)]

\* the count taken over the first two panels only
TotalAbnormalTwoPanels(data) ==
    Cardinality({pb \in Biomarkers(data) :
        /\ pb[1] # "metabolic_panel"
        /\ Get(data[pb[1]][pb[2]].current.status) \in AbnormalStatuses})

\* the sum(1 for ... if status in ["High", "Low", "Critical"])
TotalAbnormal(data) ==
    Cardinality({pb \in Biomarkers(data) :
        Get(data[pb[1]][pb[2]].current.status) \in AbnormalStatuses})

format_for_ui(data) ==
    [tumor_markers |-> FormatPanel(data.tumor_markers),
     complete_blood_count |-> FormatPanel(data.complete_blood_count),
     metabolic_panel |-> FormatPanel(data.metabolic_panel),
     clinical_interpretation |-> data.clinical_interpretation,
     summary |-> [total_abnormal |-> TotalAbnormal(data),
                  last_updated |-> get_most_recent_date(data)]]

----------------------------------------------------------------------------
(* Inputs: the per-document records of one biomarker *)

MaxEntries == 3

RefRange == Str(<<48, 45, 53>>)    \* "0-5"

NoCurrent ==
    [present |-> FALSE, value |-> Absent, unit |-> Absent, date |-> Absent,
     status |-> Absent, reference_range |-> Absent, source_context |-> Absent]

\* flat shape {value, unit, date, status, reference_range, source_context}
Flat(value, date, status, source_context) ==
    [current |-> NoCurrent, value |-> value, unit |-> NgMl, date |-> date,
     status |-> status, reference_range |-> RefRange,
     source_context |-> source_context, trend |-> <<>>]

\* legacy shape {"current": {...}, "trend": [...]}
Nested(value, date, status, source_context) ==
    [current |-> [present |-> TRUE, value |-> value, unit |-> NgMl, date |-> date,
                  status |-> status, reference_range |-> RefRange,
                  source_context |-> source_context],
     value |-> Absent, unit |-> Absent, date |-> Absent, status |-> Absent,
     reference_range |-> Absent, source_context |-> Absent, trend |-> <<>>]

Date1105 == Str(<<50, 48, 50, 51, 45, 49, 49, 45, 48, 53>>)    \* "2023-11-05"

\* legacy shape with a history of its own under "trend"
NestedWithTrend(value, date, status, source_context) ==
    [Nested(value, date, status, source_context) EXCEPT
        !.trend = <<[date |-> Date1105, value |-> Num(48), status |-> Normal,
                     source_context |-> Quest]>>]

\* measurements as the extraction reports them, with duplicates across documents
Measurements ==
    {Flat(v, d, p[1], p[2]) :
        v \in {Num(52), Pending}, d \in {Date0110, Date0302},
        p \in {<<Normal, Quest>>, <<High, QuestJan>>}}
    \cup {Flat(Num(52), Date0110, Low, QuestMar),
          Flat(Num(52), Date0110, Normal, Absent),
          Nested(Num(52), Date0302, High, QuestJan),
          NestedWithTrend(Num(52), Date0110, High, QuestJan)}

\* records with a placeholder in value or date
Placeholders ==
    {Flat(None, None, None, EmptyStr), Nested(None, None, None, EmptyStr),
     Flat(Num(52), None, Normal, Quest), Flat(Num(52), EmptyStr, Normal, Quest),
     Flat(Num(52), NA, Normal, Quest), Flat(NA, Date0110, Normal, Quest),
     Flat(EmptyStr, Date0110, Normal, Quest), Flat(None, Date0110, Normal, Quest)}

EntryDomain == Measurements \cup Placeholders

\* every combination of shape, value and date, for single-record inputs
RecordDomain ==
    {IF nested THEN Nested(v, d, Normal, Quest) ELSE Flat(v, d, Normal, Quest) :
        nested \in BOOLEAN,
        v \in {Absent, None, NA, EmptyStr, Num(0), Num(42), Pending},
        d \in {Absent, None, NA, EmptyStr, Date0110}}

EntryLists == UNION {[1..n -> EntryDomain] : n \in 0..MaxEntries}

NoMerge == [raised |-> FALSE, current |-> EmptyCurrent, trend |-> <<>>]

EmptyPanel == [name \in {} |-> NoMerge]

NoConsolidated ==
    [tumor_markers |-> EmptyPanel, complete_blood_count |-> EmptyPanel,
     metabolic_panel |-> EmptyPanel, clinical_interpretation |-> <<>>]

NoFormatted ==
    [tumor_markers |-> EmptyPanel, complete_blood_count |-> EmptyPanel,
     metabolic_panel |-> EmptyPanel, clinical_interpretation |-> <<>>,
     summary |-> [total_abnormal |-> 0, last_updated |-> None]]

NoBatch == [tumor_markers |-> [kind |-> "other", dict |-> EmptyPanel, list |-> <<>>],
            complete_blood_count |-> [kind |-> "other", dict |-> EmptyPanel, list |-> <<>>],
            metabolic_panel |-> [kind |-> "other", dict |-> EmptyPanel, list |-> <<>>],
            clinical_interpretation |-> [kind |-> "other", list |-> <<>>]]

NoRaw == [kind |-> "list", dict |-> NoBatch, list |-> <<>>]

\* no second call has been made
NoRerun == [done |-> FALSE, raised |-> FALSE, formatted |-> NoFormatted]

NoResponse == [kind |-> "raises", items |-> <<>>]

MaxRequests == 2

\* the data pool as init_database leaves a new database file; no call of the
\* pool, no request and no run of the lab pipeline yet
ServiceIdle ==
    /\ data_pool = {}
    /\ store_call = [mrn |-> None, data |-> None, db_ok |-> TRUE, returned |-> FALSE]
    /\ requests =
          [r \in 1..MaxRequests |->
              [state |-> "idle", mrn |-> None, read_ok |-> TRUE, extraction |-> FALSE,
               response |-> None]]
    /\ lab_run =
          [state |-> "idle", lab_documents |-> <<>>, idx |-> 0,
           individual_results |-> <<>>,
           metadata |-> [total_documents |-> 0, processed_documents |-> 0,
                         errors |-> <<>>, individual_pdfs |-> <<>>],
           combined_data |-> None]

\* the parts of the state a specification does not use
OthersIdle ==
    /\ model_response = NoResponse
    /\ refined = [called |-> FALSE, list |-> <<>>]
    /\ ServiceIdle

InitEntries ==
    /\ pc = "ready"
    /\ biomarker_entries \in EntryLists \cup {<<r>> : r \in RecordDomain}
    /\ empty_flags = <<>>
    /\ trend = <<>>
    /\ merged = NoMerge
    /\ consolidated_data = NoConsolidated
    /\ formatted = NoFormatted
    /\ raw_lab_data = NoRaw
    /\ use_ai_refinement = FALSE
    /\ clinical_interp_list = <<>>
    /\ unique_interpretations = <<>>
    /\ rerun = NoRerun
    /\ OthersIdle

\* is_empty_biomarker applied to each record of the list
CallIsEmpty ==
    /\ pc = "ready"
    /\ pc' = "is_empty_biomarker"
    /\ empty_flags' = [i \in 1..Len(biomarker_entries) |->
                          is_empty_biomarker(biomarker_entries[i])]
    /\ UNCHANGED <<biomarker_entries, trend, merged>>
    /\ UNCHANGED <<formatVars, inputVars, interpVars, rerun, otherVars>>

CallBuildTrend ==
    /\ pc = "ready"
    /\ pc' = "build_trend_from_values"
    /\ trend' = build_trend_from_values(biomarker_entries)
    /\ UNCHANGED <<biomarker_entries, empty_flags, merged>>
    /\ UNCHANGED <<formatVars, inputVars, interpVars, rerun, otherVars>>

CallMerge ==
    /\ pc = "ready"
    /\ pc' = "merge_biomarker_data"
    /\ merged' = merge_biomarker_data(biomarker_entries)
    /\ UNCHANGED <<biomarker_entries, empty_flags, trend>>
    /\ UNCHANGED <<formatVars, inputVars, interpVars, rerun, otherVars>>

NextEntries == CallIsEmpty \/ CallBuildTrend \/ CallMerge

SpecEntries == InitEntries /\ [][NextEntries]_vars

----------------------------------------------------------------------------
(* Inputs: one consolidated biomarker handed to format_for_ui *)

MaxTrend == 3

StrHundred == Str(<<49, 48, 48>>)    \* "100"

\* 94, 95, 100, 103, 105, 106 and -100 in tenths, 0, and values that are no number
TrendValues ==
    {Num(0), Num(940), Num(950), Num(1000), Num(1030), Num(1050), Num(1060),
     Num(-1000), StrHundred, Pending, None, Absent}

PointOf(v) ==
    [date |-> Date0110, value |-> v, status |-> Normal, source_context |-> Quest]

TrendLists == UNION {[1..n -> {PointOf(v) : v \in TrendValues}] : n \in 0..MaxTrend}

CurrentDomain ==
    {EmptyCurrent,
     [value |-> Num(1000), unit |-> NgMl, date |-> Date0110, status |-> Normal,
      reference_range |-> RefRange],
     [value |-> Num(1060), unit |-> NgMl, date |-> Date0302, status |-> High,
      reference_range |-> RefRange]}

InitFormat ==
    /\ pc = "ready"
    /\ biomarker_entries = <<>>
    /\ empty_flags = <<>>
    /\ trend = <<>>
    /\ merged = NoMerge
    /\ \E c \in CurrentDomain, t \in TrendLists :
          consolidated_data =
              [NoConsolidated EXCEPT
                  !.tumor_markers = [name \in {"CEA"} |-> [current |-> c, trend |-> t]]]
    /\ formatted = NoFormatted
    /\ raw_lab_data = NoRaw
    /\ use_ai_refinement = FALSE
    /\ clinical_interp_list = <<>>
    /\ unique_interpretations = <<>>
    /\ rerun = NoRerun
    /\ OthersIdle

CallFormatForUI ==
    /\ pc = "ready"
    /\ pc' = "format_for_ui"
    /\ formatted' = format_for_ui(consolidated_data)
    /\ UNCHANGED <<consolidated_data, entryVars, inputVars, interpVars, rerun, otherVars>>

NextFormat == CallFormatForUI

SpecFormat == InitFormat /\ [][NextFormat]_vars

----------------------------------------------------------------------------
(* Inputs: consolidated panels of several biomarkers handed to format_for_ui *)

\* one record per biomarker: every kind of date, every status, and an empty one
SummaryRecords ==
    {Flat(Num(52), d, Normal, Quest) : d \in {None, NA, EmptyStr, Date0110, Date0302}}
    \cup {Flat(Num(52), Date0110, st, Quest) : st \in {None, High, Low, Critical}}
    \cup {Flat(None, None, None, EmptyStr)}

\* the consolidated biomarker merge_biomarker_data makes of one record
SummaryEntry(record) ==
    LET m == merge_biomarker_data(<<record>>)
    IN  [current |-> m.current, trend |-> m.trend]

\* the consolidated panels over some of the names
SummaryPanels(names) ==
    UNION {[present -> {SummaryEntry(r) : r \in SummaryRecords}] :
              present \in SUBSET names}

InitSummary ==
    /\ pc = "ready"
    /\ biomarker_entries = <<>>
    /\ empty_flags = <<>>
    /\ trend = <<>>
    /\ merged = NoMerge
    /\ \E t \in SummaryPanels({"CEA", "NSE"}), c \in SummaryPanels({"WBC"}),
          m \in SummaryPanels({"ALT"}) :
          consolidated_data =
              [tumor_markers |-> t, complete_blood_count |-> c, metabolic_panel |-> m,
               clinical_interpretation |-> <<>>]
    /\ formatted = NoFormatted
    /\ raw_lab_data = NoRaw
    /\ use_ai_refinement = FALSE
    /\ clinical_interp_list = <<>>
    /\ unique_interpretations = <<>>
    /\ rerun = NoRerun
    /\ OthersIdle

SpecSummary == InitSummary /\ [][NextFormat]_vars

----------------------------------------------------------------------------
(* Inputs: the per-document extraction results given to the pipeline *)

MaxDocs == 3
MaxAIItems == 7

NoPanel == [kind |-> "other", dict |-> EmptyPanel, list |-> <<>>]
DictPanel(panel) == [kind |-> "dict", dict |-> panel, list |-> <<>>]
ListPanel(panels) == [kind |-> "list", dict |-> EmptyPanel, list |-> panels]
NoInterpretation == [kind |-> "other", list |-> <<>>]
Interpretations(strings) == [kind |-> "list", list |-> strings]

One(name, record) == [n \in {name} |-> record]

\* CEA readings in tenths: 5.2 and, later, 5.4 (+3.8%), 5.5 (+5.8%), 8.1 (+55.8%)
CEARecords ==
    {Flat(Num(52), Date0110, Normal, QuestJan),
     Flat(Num(52), Date0110, Normal, Quest),
     Flat(Num(81), Date0302, High, QuestMar),
     Flat(Num(55), Date0302, High, Quest),
     Flat(Num(54), Date0302, High, Quest),
     Flat(None, None, None, EmptyStr),
     Flat(Pending, None, None, Quest)}

TumorOnly(record) == [NoBatch EXCEPT !.tumor_markers = DictPanel(One("CEA", record))]

MildAnemia == Str(<<77, 105, 108, 100, 32, 97, 110, 101, 109, 105, 97, 46>>)
MildAnemiaUpper == Str(<<77, 73, 76, 68, 32, 65, 78, 69, 77, 73, 65, 46>>)
MildAnemiaPadded == Str(<<32, 77, 105, 108, 100, 32, 97, 110, 101, 109, 105, 97, 46, 32>>)
HepaticElevation ==
    Str(<<72, 101, 112, 97, 116, 105, 99, 32, 101, 108, 101, 118, 97, 116, 105, 111,
          110, 46>>)

\* documents that report other panels, interpretations, the list form of a
\* panel, a name outside the expected set, and a document with no panel at all
OtherBatches ==
    {NoBatch,
     [NoBatch EXCEPT
         !.tumor_markers = DictPanel(One("NSE", Flat(None, None, None, EmptyStr))),
         !.complete_blood_count = DictPanel(One("WBC", Flat(Num(31), Date0302, Low, Quest))),
         !.clinical_interpretation = Interpretations(<<MildAnemia, MildAnemiaUpper>>)],
     [NoBatch EXCEPT
         !.tumor_markers = ListPanel(<<One("CEA", Flat(Num(52), Date0110, Normal, Quest)),
                                       One("NSE", Flat(NA, NA, NA, EmptyStr))>>),
         !.metabolic_panel = DictPanel(One("Total_Bilirubin",
                                           Flat(Num(12), Date0110, Normal, Quest))),
         !.clinical_interpretation = Interpretations(<<MildAnemiaPadded, EmptyStr>>)],
     [NoBatch EXCEPT
         !.metabolic_panel = DictPanel(One("Total Bilirubin",
                                           Flat(Num(30), Date0110, Critical, Quest))),
         !.clinical_interpretation = Interpretations(<<HepaticElevation>>)]}

BatchDomain == {TumorOnly(r) : r \in CEARecords} \cup OtherBatches

RawInputs ==
    {[kind |-> "list", dict |-> NoBatch, list |-> l] :
        l \in UNION {[1..n -> BatchDomain] : n \in 0..MaxDocs}}
    \cup {[kind |-> "dict", dict |-> b, list |-> <<>>] : b \in BatchDomain}

\* what the model call of the refinement can come back with
AIResponses ==
    {[kind |-> "raises", items |-> <<>>], [kind |-> "invalid", items |-> <<>>]}
    \cup {[kind |-> "list", items |-> [i \in 1..n |-> Str(<<82, 48 + i>>)]] :
             n \in {0, 3, MaxAIItems}}

Init ==
    /\ pc = "ready"
    /\ biomarker_entries = <<>>
    /\ empty_flags = <<>>
    /\ trend = <<>>
    /\ merged = NoMerge
    /\ consolidated_data = NoConsolidated
    /\ formatted = NoFormatted
    /\ raw_lab_data \in RawInputs
    /\ use_ai_refinement \in BOOLEAN
    /\ clinical_interp_list = <<>>
    /\ unique_interpretations = <<>>
    /\ rerun = NoRerun
    /\ OthersIdle

\* the writes of build_trend_from_values done on the input record itself
\* (setdefault in place of get): a missing source_context is filled in
RecordAfterSetDefault(record) ==
    IF ~IsDict(record) THEN record
    ELSE IF record.current.present
    THEN [record EXCEPT !.current.source_context = GetOr(@, EmptyStr)]
    ELSE [record EXCEPT !.source_context = GetOr(@, EmptyStr)]

PanelAfterSetDefault(field) ==
    [field EXCEPT
        !.dict = [name \in DOMAIN @ |-> RecordAfterSetDefault(@[name])],
        !.list = [i \in 1..Len(@) |->
                     [name \in DOMAIN @[i] |-> RecordAfterSetDefault(@[i][name])]]]

BatchAfterSetDefault(batch) ==
    [batch EXCEPT !.tumor_markers = PanelAfterSetDefault(@),
                  !.complete_blood_count = PanelAfterSetDefault(@),
                  !.metabolic_panel = PanelAfterSetDefault(@)]

InputAfterSetDefault(raw) ==
    [raw EXCEPT !.dict = BatchAfterSetDefault(@),
                !.list = [i \in 1..Len(@) |-> BatchAfterSetDefault(@[i])]]

\* the caller's object after the call. Line 346 rebinds the local name to a
\* new list; the panel lists, valid_entries, sorted_entries, seen, trend and
\* all_interpretations are new lists and dicts, the records and the
\* interpretation lists are only read (.get, `in`, iteration), and the trend
\* points and current dicts are built from copies of the fields
InputAfterCall(raw) == raw

\* the except clause returning what was consolidated instead of re-raising
ProcessLabDataForUISwallows ==
    /\ pc = "ready"
    /\ \E response \in AIResponses :
          LET consolidated == postprocess_lab_data(raw_lab_data, use_ai_refinement, response)
          IN  /\ pc' = "process_lab_data_for_ui"
              /\ consolidated_data' = consolidated.data
              /\ formatted' = format_for_ui(consolidated.data)
    /\ raw_lab_data' = InputAfterCall(raw_lab_data)
    /\ UNCHANGED <<use_ai_refinement, entryVars, interpVars, rerun, otherVars>>

\* process_lab_data_for_ui: postprocess_lab_data, then format_for_ui; an
\* exception of either is re-raised and nothing is returned
ProcessLabDataForUI ==
    /\ pc = "ready"
    /\ \E response \in AIResponses :
          LET consolidated == postprocess_lab_data(raw_lab_data, use_ai_refinement, response)
          IN  IF consolidated.raised
              THEN /\ pc' = "raised"
                   /\ UNCHANGED formatVars
              ELSE /\ pc' = "process_lab_data_for_ui"
                   /\ consolidated_data' = consolidated.data
                   /\ formatted' = format_for_ui(consolidated.data)
    /\ raw_lab_data' = InputAfterCall(raw_lab_data)
    /\ UNCHANGED <<use_ai_refinement, entryVars, interpVars, rerun, otherVars>>

Next == ProcessLabDataForUI

Spec == Init /\ [][Next]_vars

----------------------------------------------------------------------------
(* Inputs: documents of every shape, processed once and then once more *)

MaxBatches == 3

\* a metabolic panel dict with a key of the set and the underscore spelling
BilirubinPanel ==
    [name \in {"ALT", "Total_Bilirubin"} |->
        IF name = "ALT" THEN Flat(Num(580), Date0302, High, Absent)
        ELSE Flat(Num(12), Date0110, Normal, Quest)]

\* well-formed documents; documents whose tumor_markers is no dict, whose CEA
\* record is null, whose non-empty CEA record has a null date, whose
\* clinical_interpretation holds a null or is no list; and the empty document
ShapeBatches ==
    {TumorOnly(Flat(Num(52), Date0110, Normal, Quest)),
     TumorOnly(Flat(Pending, None, None, Quest)),
     TumorOnly(None),
     [NoBatch EXCEPT
         !.tumor_markers = ListPanel(<<One("CEA", Flat(Num(81), Date0302, High, QuestMar)),
                                       One("NSE", Flat(NA, Date0302, High, EmptyStr))>>),
         !.clinical_interpretation = Interpretations(<<MildAnemia, MildAnemiaUpper>>)],
     [NoBatch EXCEPT
         !.complete_blood_count = DictPanel(One("WBC", Flat(Num(31), Date0302, Low, Quest))),
         !.clinical_interpretation = Interpretations(<<HepaticElevation>>)],
     [NoBatch EXCEPT
         !.metabolic_panel = DictPanel(BilirubinPanel)],
     [NoBatch EXCEPT
         !.clinical_interpretation = Interpretations(<<MildAnemiaPadded, None>>)],
     NoBatch}

ShapeInputs ==
    {[kind |-> "list", dict |-> NoBatch, list |-> l] :
        l \in UNION {[1..n -> ShapeBatches] : n \in 0..MaxBatches}}
    \cup {[kind |-> "dict", dict |-> b, list |-> <<>>] : b \in ShapeBatches}

InitDocuments ==
    /\ pc = "ready"
    /\ biomarker_entries = <<>>
    /\ empty_flags = <<>>
    /\ trend = <<>>
    /\ merged = NoMerge
    /\ consolidated_data = NoConsolidated
    /\ formatted = NoFormatted
    /\ raw_lab_data \in ShapeInputs
    /\ use_ai_refinement \in BOOLEAN
    /\ clinical_interp_list = <<>>
    /\ unique_interpretations = <<>>
    /\ rerun = NoRerun
    /\ OthersIdle

\* process_lab_data_for_ui called a second time with the same arguments; the
\* model call of the refinement answers anew
ProcessAgain ==
    /\ pc \in {"process_lab_data_for_ui", "raised"}
    /\ ~rerun.done
    /\ \E response \in AIResponses :
          LET consolidated == postprocess_lab_data(raw_lab_data, use_ai_refinement, response)
          IN  rerun' = [done |-> TRUE,
                        raised |-> consolidated.raised,
                        formatted |-> IF consolidated.raised THEN NoFormatted
                                      ELSE format_for_ui(consolidated.data)]
    /\ raw_lab_data' = InputAfterCall(raw_lab_data)
    /\ UNCHANGED <<pc, use_ai_refinement, entryVars, formatVars, interpVars, otherVars>>

NextDocuments == ProcessLabDataForUI \/ ProcessAgain

SpecDocuments == InitDocuments /\ [][NextDocuments]_vars

----------------------------------------------------------------------------
(* Inputs: the same documents supplied in two orders *)

MaxOrderDocs == 3

\* CEA reported twice for one day with the same value and contexts of equal
\* length, twice for another day with different values, without a value, and
\* as "Pending" without a date; and a document about WBC only
OrderBatches ==
    {TumorOnly(r) :
        r \in {Flat(Num(52), Date0110, Normal, QuestJan),
               Flat(Num(52), Date0110, High, QuestMar),
               Flat(Num(81), Date0302, High, Quest),
               Flat(Num(54), Date0302, Normal, Quest),
               Flat(None, None, None, EmptyStr),
               Flat(Pending, None, None, Quest)}}
    \cup {[NoBatch EXCEPT
             !.complete_blood_count =
                 DictPanel(One("WBC", Flat(Num(31), Date0302, Low, Quest)))]}

InitOrder ==
    /\ pc = "ready"
    /\ biomarker_entries = <<>>
    /\ empty_flags = <<>>
    /\ trend = <<>>
    /\ merged = NoMerge
    /\ consolidated_data = NoConsolidated
    /\ formatted = NoFormatted
    /\ raw_lab_data \in
          {[kind |-> "list", dict |-> NoBatch, list |-> l] :
              l \in UNION {[1..n -> OrderBatches] : n \in 0..MaxOrderDocs}}
    /\ use_ai_refinement = FALSE
    /\ clinical_interp_list = <<>>
    /\ unique_interpretations = <<>>
    /\ rerun = NoRerun
    /\ OthersIdle

\* process_lab_data_for_ui called on the same documents in another order
ProcessReordered ==
    /\ pc \in {"process_lab_data_for_ui", "raised"}
    /\ ~rerun.done
    /\ \E p \in {q \in [1..Len(raw_lab_data.list) -> 1..Len(raw_lab_data.list)] :
                    \A i, j \in DOMAIN q : q[i] = q[j] => i = j} :
          LET reordered == [raw_lab_data EXCEPT
                               !.list = [i \in 1..Len(@) |-> @[p[i]]]]
              consolidated ==
                  postprocess_lab_data(reordered, use_ai_refinement, NoResponse)
          IN  rerun' = [done |-> TRUE,
                        raised |-> consolidated.raised,
                        formatted |-> IF consolidated.raised THEN NoFormatted
                                      ELSE format_for_ui(consolidated.data)]
    /\ raw_lab_data' = InputAfterCall(raw_lab_data)
    /\ UNCHANGED <<pc, use_ai_refinement, entryVars, formatVars, interpVars, otherVars>>

NextOrder == ProcessLabDataForUI \/ ProcessReordered

SpecOrder == InitOrder /\ [][NextOrder]_vars

----------------------------------------------------------------------------
(* Inputs: the interpretation lists given to the de-duplication *)

MaxInterpLists == 2

Blank == Str(<<32, 9>>)    \* " \t"

InterpretationStrings ==
    {MildAnemia, MildAnemiaUpper, MildAnemiaPadded, HepaticElevation, EmptyStr, Blank}

\* the clinical_interpretation list of one document: up to two strings
DocumentInterpretations ==
    {<<>>} \cup {<<a>> : a \in InterpretationStrings}
           \cup {<<a, b>> : a \in InterpretationStrings, b \in InterpretationStrings}

InitInterpretations ==
    /\ pc = "ready"
    /\ biomarker_entries = <<>>
    /\ empty_flags = <<>>
    /\ trend = <<>>
    /\ merged = NoMerge
    /\ consolidated_data = NoConsolidated
    /\ formatted = NoFormatted
    /\ raw_lab_data = NoRaw
    /\ use_ai_refinement = FALSE
    /\ clinical_interp_list \in
          UNION {[1..n -> DocumentInterpretations] : n \in 0..MaxInterpLists}
    /\ unique_interpretations = <<>>
    /\ rerun = NoRerun
    /\ OthersIdle

\* consolidate_clinical_interpretations applied to the lists; every element
\* is a str here, so the call returns
CallConsolidateInterpretations ==
    /\ pc = "ready"
    /\ LET result == consolidate_clinical_interpretations(clinical_interp_list)
       IN  IF result.raised
           THEN /\ pc' = "raised"
                /\ UNCHANGED unique_interpretations
           ELSE /\ pc' = "consolidate_clinical_interpretations"
                /\ unique_interpretations' = result.list
    /\ UNCHANGED <<clinical_interp_list, entryVars, formatVars, inputVars, rerun, otherVars>>

NextInterpretations == CallConsolidateInterpretations

SpecInterpretations == InitInterpretations /\ [][NextInterpretations]_vars

----------------------------------------------------------------------------
(* Inputs: de-duplicated interpretations and an answer of the model call *)

MaxRaw == 2

\* the answers of AIResponses, a response text that json.loads rejects, and
\* lists of every length up to MaxAIItems
RefineResponses ==
    AIResponses \cup {[kind |-> "not_json", items |-> <<>>]}
    \cup {[kind |-> "list", items |-> [i \in 1..n |-> Str(<<82, 48 + i>>)]] :
             n \in 0..MaxAIItems}

InitRefine ==
    /\ pc = "ready"
    /\ biomarker_entries = <<>>
    /\ empty_flags = <<>>
    /\ trend = <<>>
    /\ merged = NoMerge
    /\ consolidated_data = NoConsolidated
    /\ formatted = NoFormatted
    /\ raw_lab_data = NoRaw
    /\ use_ai_refinement = TRUE
    /\ clinical_interp_list = <<>>
    /\ unique_interpretations \in
          UNION {[1..n -> {MildAnemia, HepaticElevation, Pending}] : n \in 0..MaxRaw}
    /\ rerun = NoRerun
    /\ model_response \in RefineResponses
    /\ refined = [called |-> FALSE, list |-> <<>>]
    /\ ServiceIdle

\* refine_clinical_interpretations_with_ai(unique_interpretations, ...); the
\* model is called unless the early return of an empty list is taken
CallRefine ==
    /\ pc = "ready"
    /\ pc' = "refine_clinical_interpretations_with_ai"
    /\ refined' =
          [called |-> unique_interpretations # <<>>,
           list |-> refine_clinical_interpretations_with_ai(
                        unique_interpretations, model_response)]
    /\ UNCHANGED <<model_response, entryVars, formatVars, inputVars, interpVars, rerun,
                   data_pool, store_call, requests, lab_run>>

SpecRefine == InitRefine /\ [][CallRefine]_vars

----------------------------------------------------------------------------
(* Inputs: calls of the data pool with valid and invalid arguments *)

\* "123", " 123 ", "456", "", " \t", None and the number 123
StoreMrns ==
    {Str(<<49, 50, 51>>), Str(<<32, 49, 50, 51, 32>>), Str(<<52, 53, 54>>),
     EmptyStr, Blank, None, Num(1230)}

\* two extraction results, the empty dict, a dict holding a value json.dumps
\* rejects, a list and None
StoreData ==
    {[kind |-> "dict", size |-> 1, json |-> TRUE, id |-> i] : i \in 1..2}
    \cup {[kind |-> "dict", size |-> 0, json |-> TRUE, id |-> 0],
          [kind |-> "dict", size |-> 1, json |-> FALSE, id |-> 3],
          [kind |-> "list", size |-> 1, json |-> TRUE, id |-> 4],
          None}

InitPool ==
    /\ pc = "ready"
    /\ biomarker_entries = <<>>
    /\ empty_flags = <<>>
    /\ trend = <<>>
    /\ merged = NoMerge
    /\ consolidated_data = NoConsolidated
    /\ formatted = NoFormatted
    /\ raw_lab_data = NoRaw
    /\ use_ai_refinement = FALSE
    /\ clinical_interp_list = <<>>
    /\ unique_interpretations = <<>>
    /\ rerun = NoRerun
    /\ OthersIdle

StorePatientData ==
    /\ \E mrn \in StoreMrns, data \in StoreData, db_ok \in BOOLEAN :
          LET stored == store_patient_data(data_pool, mrn, data, db_ok)
          IN  /\ data_pool' = stored.rows
              /\ store_call' = [mrn |-> mrn, data |-> data, db_ok |-> db_ok,
                                returned |-> stored.returned]
    /\ pc' = "store_patient_data"
    /\ UNCHANGED <<model_response, refined, entryVars, formatVars, inputVars,
                   interpVars, rerun, requests, lab_run>>

DeletePatientData ==
    /\ \E mrn \in StoreMrns : data_pool' = delete_patient_data(data_pool, mrn)
    /\ pc' = "delete_patient_data"
    /\ UNCHANGED <<store_call, model_response, refined, entryVars, formatVars,
                   inputVars, interpVars, rerun, requests, lab_run>>

ClearPool ==
    /\ data_pool' = clear_pool(data_pool)
    /\ pc' = "clear_pool"
    /\ UNCHANGED <<store_call, model_response, refined, entryVars, formatVars,
                   inputVars, interpVars, rerun, requests, lab_run>>

NextPool == StorePatientData \/ DeletePatientData \/ ClearPool

SpecPool == InitPool /\ [][NextPool]_vars

----------------------------------------------------------------------------
(* POST /api/patient/all of Backend/app.py: requests served by one event    *)
(* loop, which runs a handler from one await to the next without a break    *)

\* lines 213-248: the pool is read; a hit is returned, a miss submits the
\* four extraction pipelines to the executor and awaits them
ReceiveRequest(r) ==
    /\ requests[r].state = "idle"
    /\ \E mrn \in {Str(<<49, 50, 51>>), Str(<<52, 53, 54>>)}, db_ok \in BOOLEAN :
          LET cached_data == get_patient_data(data_pool, mrn, db_ok)
          IN  requests' =
                  [requests EXCEPT ![r] =
                      IF cached_data # None
                      THEN [state |-> "returned", mrn |-> mrn, read_ok |-> db_ok,
                            extraction |-> FALSE, response |-> cached_data]
                      ELSE [state |-> "extracting", mrn |-> mrn, read_ok |-> db_ok,
                            extraction |-> TRUE, response |-> None]]
    /\ pc' = "get_patient_data"
    /\ UNCHANGED <<data_pool, store_call, lab_run, model_response, refined, entryVars,
                   formatVars, inputVars, interpVars, rerun>>

\* lines 248-378: the pipelines are done; the result is put together, stored
\* (the return value of store_patient_data is dropped) and returned; an
\* exception on the way becomes the HTTP 500 answer and nothing is stored
CompleteExtraction(r) ==
    /\ requests[r].state = "extracting"
    /\ \/ \E id \in 1..2, db_ok \in BOOLEAN :
             LET result == [kind |-> "dict", size |-> 1, json |-> TRUE, id |-> id]
                 stored == store_patient_data(data_pool, requests[r].mrn, result, db_ok)
             IN  /\ data_pool' = stored.rows
                 /\ store_call' = [mrn |-> requests[r].mrn, data |-> result,
                                   db_ok |-> db_ok, returned |-> stored.returned]
                 /\ requests' = [requests EXCEPT ![r].state = "returned",
                                                 ![r].response = result]
       \/ /\ requests' = [requests EXCEPT ![r].state = "failed"]
          /\ UNCHANGED <<data_pool, store_call>>
    /\ pc' = "get_patient_data"
    /\ UNCHANGED <<lab_run, model_response, refined, entryVars, formatVars, inputVars,
                   interpVars, rerun>>

NextService ==
    \/ \E r \in 1..MaxRequests : ReceiveRequest(r)
    \/ \E r \in 1..MaxRequests : CompleteExtraction(r)
    \/ DeletePatientData
    \/ ClearPool

SpecService == InitPool /\ [][NextService]_vars

----------------------------------------------------------------------------
(* process_individual_lab_results_gemini of                                 *)
(* Backend/Utils/Tabs/lab_pipeline_comparison.py: one step per document     *)

MaxLabDocs == 3

\* a lab document by what happens to it: the call named in `fails` raises,
\* or all three calls return and the extraction is parsed_data
LabDocuments ==
    {[fails |-> f, parsed_data |-> NoBatch] :
        f \in {"fetch_individual_pdf_bytes", "extract_with_gemini", "validate_extraction"}}
    \cup {[fails |-> "none", parsed_data |-> b] :
             b \in {TumorOnly(Flat(Num(52), Date0110, Normal, Quest)), TumorOnly(None)}}

\* lines 531-577: the documents are listed; none gives the early return
StartLabRun ==
    /\ lab_run.state = "idle"
    /\ \E docs \in UNION {[1..n -> LabDocuments] : n \in 0..MaxLabDocs} :
          lab_run' = [lab_run EXCEPT
                         !.state = IF docs = <<>> THEN "returned" ELSE "loop",
                         !.lab_documents = docs,
                         !.metadata.total_documents = Len(docs)]
    /\ pc' = "process_individual_lab_results_gemini"
    /\ UNCHANGED <<data_pool, store_call, requests, model_response, refined, entryVars,
                   formatVars, inputVars, interpVars, rerun>>

\* the loop ended at the first document that failed
ProcessDocumentStops ==
    /\ lab_run.state = "loop"
    /\ lab_run.idx < Len(lab_run.lab_documents)
    /\ LET idx == lab_run.idx + 1
           doc == lab_run.lab_documents[idx]
       IN  lab_run' =
               IF doc.fails = "none"
               THEN [lab_run EXCEPT
                        !.idx = idx,
                        !.individual_results =
                            Append(@, [document_index |-> idx,
                                       parsed_data |-> doc.parsed_data]),
                        !.metadata.individual_pdfs = Append(@, idx),
                        !.metadata.processed_documents = @ + 1]
               ELSE [lab_run EXCEPT !.idx = Len(lab_run.lab_documents),
                                    !.metadata.errors = Append(@, idx)]
    /\ UNCHANGED <<pc, data_pool, store_call, requests, model_response, refined,
                   entryVars, formatVars, inputVars, interpVars, rerun>>

\* lines 579-660: one iteration of the loop; an exception of the three calls
\* adds the error message and the loop goes on
ProcessDocument ==
    /\ lab_run.state = "loop"
    /\ lab_run.idx < Len(lab_run.lab_documents)
    /\ LET idx == lab_run.idx + 1
           doc == lab_run.lab_documents[idx]
       IN  lab_run' =
               IF doc.fails = "none"
               THEN [lab_run EXCEPT
                        !.idx = idx,
                        !.individual_results =
                            Append(@, [document_index |-> idx,
                                       parsed_data |-> doc.parsed_data]),
                        !.metadata.individual_pdfs = Append(@, idx),
                        !.metadata.processed_documents = @ + 1]
               ELSE [lab_run EXCEPT !.idx = idx,
                                    !.metadata.errors = Append(@, idx)]
    /\ UNCHANGED <<pc, data_pool, store_call, requests, model_response, refined,
                   entryVars, formatVars, inputVars, interpVars, rerun>>

\* lines 662-713: the extractions are consolidated, if there is any; an
\* exception of process_lab_data_for_ui leaves the function
ConsolidateResults ==
    /\ lab_run.state = "loop"
    /\ lab_run.idx = Len(lab_run.lab_documents)
    /\ LET all_parsed_data ==
               [i \in 1..Len(lab_run.individual_results) |->
                   lab_run.individual_results[i].parsed_data]
       IN  IF all_parsed_data = <<>>
           THEN lab_run' = [lab_run EXCEPT !.state = "returned"]
           ELSE \E response \in AIResponses :
                    LET consolidated ==
                            postprocess_lab_data(
                                [kind |-> "list", dict |-> NoBatch, list |-> all_parsed_data],
                                TRUE, response)
                    IN  lab_run' =
                            IF consolidated.raised
                            THEN [lab_run EXCEPT !.state = "raised"]
                            ELSE [lab_run EXCEPT
                                     !.state = "returned",
                                     !.combined_data = format_for_ui(consolidated.data)]
    /\ UNCHANGED <<pc, data_pool, store_call, requests, model_response, refined,
                   entryVars, formatVars, inputVars, interpVars, rerun>>

NextLab == StartLabRun \/ ProcessDocument \/ ConsolidateResults

SpecLab == InitPool /\ [][NextLab]_vars

----------------------------------------------------------------------------
(* Properties of the per-biomarker functions *)

\* the fields of input record k as its consumers read them
RecData(k) ==
    IF biomarker_entries[k].current.present
    THEN biomarker_entries[k].current
    ELSE biomarker_entries[k]

RecDate(k) == IF RecData(k).date = Absent THEN None ELSE RecData(k).date
RecValue(k) == IF RecData(k).value = Absent THEN None ELSE RecData(k).value
RecStatus(k) == IF RecData(k).status = Absent THEN None ELSE RecData(k).status
RecContext(k) ==
    IF RecData(k).source_context = Absent THEN EmptyStr ELSE RecData(k).source_context

EmptyMarkers == {None, NA, EmptyStr}

\* a <= b in code-point lexicographic order, stated by the first difference
LexLeq(a, b) ==
    LET diff == {k \in 1..Len(a) : k <= Len(b) /\ a[k] # b[k]}
    IN  IF diff = {} THEN Len(a) <= Len(b)
        ELSE LET k == CHOOSE m \in diff : \A o \in diff : m <= o
             IN  a[k] < b[k]

AscendingByDate(t) ==
    \A i \in 1..(Len(t) - 1) : LexLeq(t[i].date.s, t[i + 1].date.s)

\* C1: the trend of build_trend_from_values has at most one point per
\* (date, value) pair, and each point carries the status and source_context of
\* a record with that pair whose source_context is longest among them.
Thm_C1_DedupKeepsLongest ==
    pc = "build_trend_from_values" =>
        /\ \A i, j \in 1..Len(trend) :
              (trend[i].date = trend[j].date /\ trend[i].value = trend[j].value)
                  => i = j
        /\ \A i \in 1..Len(trend) :
              LET group == {k \in 1..Len(biomarker_entries) :
                               RecDate(k) = trend[i].date /\ RecValue(k) = trend[i].value}
              IN  \E k \in group :
                      /\ RecStatus(k) = trend[i].status
                      /\ RecContext(k) = trend[i].source_context
                      /\ \A m \in group : StrLen(RecContext(m)) <= StrLen(RecContext(k))

\* a later duplicate with a longer source_context has replaced the earlier one
Wit_C1_LaterLongerKept ==
    /\ pc = "build_trend_from_values"
    /\ \E k, m \in 1..Len(biomarker_entries) :
          /\ k < m
          /\ RecDate(k) = RecDate(m) /\ RecValue(k) = RecValue(m)
          /\ StrLen(RecContext(k)) < StrLen(RecContext(m))
          /\ \E i \in 1..Len(trend) :
                /\ trend[i].date = RecDate(m) /\ trend[i].value = RecValue(m)
                /\ trend[i].source_context = RecContext(m)
                /\ trend[i].status = RecStatus(m)

\* C21: among the records sharing a (date, value) pair the trend point is
\* the first one that no later record beats by a strictly longer
\* source_context: on equal length the record seen first stays, with its
\* status and source_context.
Thm_C21_TieKeepsFirst ==
    pc = "build_trend_from_values" =>
        \A i \in 1..Len(trend) :
            LET group == {k \in 1..Len(biomarker_entries) :
                             RecDate(k) = trend[i].date /\ RecValue(k) = trend[i].value}
            IN  \E k \in group :
                    /\ \A m \in group :
                          IF m < k
                          THEN StrLen(RecContext(m)) < StrLen(RecContext(k))
                          ELSE StrLen(RecContext(m)) <= StrLen(RecContext(k))
                    /\ trend[i].status = RecStatus(k)
                    /\ trend[i].source_context = RecContext(k)

\* two records of one pair with contexts of equal length and different
\* statuses: the point is the first one's
Wit_C21_EqualLengthFirstKept ==
    /\ pc = "build_trend_from_values"
    /\ \E k, m \in 1..Len(biomarker_entries) :
          /\ k < m
          /\ RecDate(k) = RecDate(m) /\ RecValue(k) = RecValue(m)
          /\ StrLen(RecContext(k)) = StrLen(RecContext(m))
          /\ RecContext(k) # RecContext(m) /\ RecStatus(k) # RecStatus(m)
          /\ \A o \in 1..Len(biomarker_entries) : o \notin {k, m} => RecDate(o) # RecDate(k)
          /\ \E i \in 1..Len(trend) :
                /\ trend[i].date = RecDate(k) /\ trend[i].value = RecValue(k)
                /\ trend[i].source_context = RecContext(k)
                /\ trend[i].status = RecStatus(k)

\* the (date, value) pairs of a list of points or of the kept input records
PairsOf(t) == {<<t[i].date, t[i].value>> : i \in 1..Len(t)}

PassingPairs ==
    {<<RecDate(k), RecValue(k)>> :
        k \in {m \in 1..Len(biomarker_entries) :
                  RecDate(m) \notin EmptyMarkers /\ RecValue(m) \notin EmptyMarkers}}

\* C26 (as claimed): the (date, value) pairs of the trend are exactly the
\* pairs of the input records whose date and value are none of None, "" and
\* "NA"; each point's status and source_context are those of one input record
\* with its pair; the trend has no more points than the input has records.
Claim_C26_NeitherInventsNorLoses ==
    pc = "build_trend_from_values" =>
        /\ PairsOf(trend) = PassingPairs
        /\ \A i \in 1..Len(trend) :
              \E k \in 1..Len(biomarker_entries) :
                  /\ RecDate(k) = trend[i].date /\ RecValue(k) = trend[i].value
                  /\ RecStatus(k) = trend[i].status
                  /\ RecContext(k) = trend[i].source_context
        /\ Len(trend) <= Len(biomarker_entries)

\* C4: the trend returned by build_trend_from_values, and the trend of a
\* consolidated biomarker, is sorted ascending by date string.
Thm_C4_TrendAscending ==
    /\ pc = "build_trend_from_values" => AscendingByDate(trend)
    /\ pc = "merge_biomarker_data" => AscendingByDate(merged.trend)

\* the later date came first in the input and the sort moved it behind
Wit_C4_Reordered ==
    /\ pc = "build_trend_from_values"
    /\ Len(biomarker_entries) >= 2
    /\ RecDate(1) = Date0302 /\ RecValue(1) = Num(52)
    /\ RecDate(2) = Date0110 /\ RecValue(2) = Num(52)
    /\ Len(trend) = 2
    /\ trend[1].date = Date0110 /\ trend[2].date = Date0302

\* C5 (as claimed): a record whose date or value is None, "" or "NA"
\* contributes no trend point, and every other record contributes its
\* (date, value) pair.
Claim_C5_SkipRule ==
    pc = "build_trend_from_values" =>
        \A k \in 1..Len(biomarker_entries) :
            LET inTrend == \E i \in 1..Len(trend) :
                               trend[i].date = RecDate(k) /\ trend[i].value = RecValue(k)
            IN  IF RecDate(k) \in EmptyMarkers \/ RecValue(k) \in EmptyMarkers
                THEN ~inTrend
                ELSE inTrend

\* C6: is_empty_biomarker is true iff the effective value (current.value for
\* the nested shape, value for the flat shape) is None, "NA" or ""; numbers,
\* 0 included, and "Pending" are not empty.
Thm_C6_EmptyIffMarker ==
    pc = "is_empty_biomarker" =>
        \A k \in 1..Len(biomarker_entries) :
            /\ empty_flags[k] = (RecValue(k) \in EmptyMarkers)
            /\ (RecValue(k).t = "num" \/ RecValue(k) = Pending) => ~empty_flags[k]

\* a nested record whose current.value is 0 was classified as not empty
Wit_C6_NestedZero ==
    /\ pc = "is_empty_biomarker"
    /\ Len(biomarker_entries) = 1
    /\ biomarker_entries[1].current.present
    /\ biomarker_entries[1].current.value = Num(0)
    /\ empty_flags[1] = FALSE

\* the flat record made of the `current` sub-record of a nested record
FlatOf(record) ==
    IF record.current.present
    THEN [current |-> NoCurrent,
          value |-> record.current.value, unit |-> record.current.unit,
          date |-> record.current.date, status |-> record.current.status,
          reference_range |-> record.current.reference_range,
          source_context |-> record.current.source_context, trend |-> <<>>]
    ELSE record

FlatEntries == [k \in 1..Len(biomarker_entries) |-> FlatOf(biomarker_entries[k])]

HasNested == \E k \in 1..Len(biomarker_entries) : biomarker_entries[k].current.present

\* every point of t is the (date, value) of the effective data of a record
FromCurrentOnly(t) ==
    \A i \in 1..Len(t) :
        \E k \in 1..Len(biomarker_entries) :
            t[i].date = RecDate(k) /\ t[i].value = RecValue(k)

Claim_C2_CurrentIsLatest ==
    (pc = "merge_biomarker_data"
        /\ \E k \in 1..Len(biomarker_entries) : RecValue(k) \notin EmptyMarkers) =>
        /\ ~merged.raised
        /\ \E k \in 1..Len(biomarker_entries) :
              /\ RecValue(k) \notin EmptyMarkers
              /\ \A m \in 1..Len(biomarker_entries) :
                    RecValue(m) \notin EmptyMarkers =>
                        /\ LexLeq(RecDate(m).s, RecDate(k).s)
                        /\ m < k => RecDate(m) # RecDate(k)
              /\ merged.current.value = RecValue(k)
              /\ merged.current.date = RecDate(k)
              /\ merged.current.status = RecStatus(k)
              /\ merged.current.unit = RecData(k).unit
              /\ merged.current.reference_range = RecData(k).reference_range

\* C23 (as claimed): whenever merge_biomarker_data returns a non-empty trend,
\* (current.date, current.value) is the (date, value) of a trend point and no
\* trend point has a date later than current.date.
Claim_C23_CurrentAgreesWithTrend ==
    (pc = "merge_biomarker_data" /\ ~merged.raised /\ merged.trend # <<>>) =>
        /\ <<merged.current.date, merged.current.value>> \in PairsOf(merged.trend)
        /\ \A i \in 1..Len(merged.trend) :
              /\ merged.current.date.t = "str"
              /\ LexLeq(merged.trend[i].date.s, merged.current.date.s)

----------------------------------------------------------------------------
(* Properties of refine_clinical_interpretations_with_ai *)

\* C22 (as claimed): the refinement never loses the interpretations: an empty
\* raw list gives [] without a model call; a non-empty raw list gives a
\* non-empty result, which is the raw list when the call raised, the response
\* was no JSON or no list of strings, and otherwise the model's list cut to
\* its first 6 items.
Claim_C22_NeverLosesInterpretations ==
    pc = "refine_clinical_interpretations_with_ai" =>
        IF unique_interpretations = <<>>
        THEN refined.list = <<>> /\ ~refined.called
        ELSE /\ refined.list # <<>>
             /\ model_response.kind # "list" => refined.list = unique_interpretations
             /\ model_response.kind = "list" =>
                   /\ Len(refined.list) = IF Len(model_response.items) > 6 THEN 6
                                          ELSE Len(model_response.items)
                   /\ \A i \in 1..Len(refined.list) :
                         refined.list[i] = model_response.items[i]

----------------------------------------------------------------------------
(* Properties of format_for_ui *)

\* the CEA entry given to and produced by format_for_ui
InTrend == consolidated_data.tumor_markers["CEA"].trend
OutCEA == formatted.tumor_markers["CEA"]

\* the number a trend value stands for, in tenths; 0 when it stands for none
IsNumeric(v) == v.t = "num" \/ v = StrHundred
NumericOf(v) == IF v.t = "num" THEN v.n ELSE IF v = StrHundred THEN 1000 ELSE 0

\* the direction the rule assigns, with both sides of
\* (last - prev) / prev * 100 > 5 multiplied by prev * prev
DirectionOf(last, prev) ==
    IF 100 * (last - prev) * prev > 5 * prev * prev THEN Increasing
    ELSE IF 100 * (last - prev) * prev < (-5) * prev * prev THEN Decreasing
    ELSE Stable

Claim_C8_FewPointsInsufficient ==
    pc = "format_for_ui" =>
        /\ OutCEA.trend_direction \in {Increasing, Decreasing, Stable, InsufficientData}
        /\ Len(InTrend) < 2 => OutCEA.trend_direction = InsufficientData

\* C9: with at least two points, trend_direction is insufficient_data, and
\* format_for_ui returns, whenever the second-to-last value is zero or one of
\* the last two values is no number ("Pending", None).
Thm_C9_NotANumberInsufficient ==
    (pc = "format_for_ui" /\ Len(InTrend) >= 2) =>
        LET last == InTrend[Len(InTrend)].value
            prev == InTrend[Len(InTrend) - 1].value
        IN  (last \in {Pending, None} \/ prev \in {Pending, None, Num(0)}) =>
                /\ OutCEA.trend_direction = InsufficientData
                /\ OutCEA.trend = InTrend

\* the last value is "Pending" after a numeric one
Wit_C9_PendingLast ==
    /\ pc = "format_for_ui"
    /\ Len(InTrend) = 2
    /\ InTrend[1].value = Num(1000)
    /\ InTrend[2].value = Pending
    /\ OutCEA.trend_direction = InsufficientData

\* the number of biomarkers of a formatted panel that satisfy Test
CountIn(panel, Test(_)) == Cardinality({name \in DOMAIN panel : Test(panel[name])})

\* C12: summary.total_abnormal is the number of biomarkers of the three
\* panels whose current.status is High, Low or Critical, which is the number
\* of emitted biomarkers whose current.is_abnormal is true.
Thm_C12_TotalAbnormal ==
    pc = "format_for_ui" =>
        LET StatusAbnormal(b) == b.current.status \in {High, Low, Critical}
            FlagAbnormal(b) == b.current.is_abnormal
        IN  /\ formatted.summary.total_abnormal =
                  CountIn(consolidated_data.tumor_markers, StatusAbnormal)
                  + CountIn(consolidated_data.complete_blood_count, StatusAbnormal)
                  + CountIn(consolidated_data.metabolic_panel, StatusAbnormal)
            /\ formatted.summary.total_abnormal =
                  CountIn(formatted.tumor_markers, FlagAbnormal)
                  + CountIn(formatted.complete_blood_count, FlagAbnormal)
                  + CountIn(formatted.metabolic_panel, FlagAbnormal)

\* CEA High, NSE Normal, WBC Low and ALT Critical were counted as three
Wit_C12_ThreeOfFour ==
    /\ pc = "format_for_ui"
    /\ DOMAIN formatted.tumor_markers = {"CEA", "NSE"}
    /\ formatted.tumor_markers["CEA"].current.status = High
    /\ formatted.tumor_markers["NSE"].current.status = Normal
    /\ DOMAIN formatted.complete_blood_count = {"WBC"}
    /\ formatted.complete_blood_count["WBC"].current.status = Low
    /\ DOMAIN formatted.metabolic_panel = {"ALT"}
    /\ formatted.metabolic_panel["ALT"].current.status = Critical
    /\ formatted.summary.total_abnormal = 3

\* the current.date fields of the emitted biomarkers that are date strings
EmittedDates ==
    {d \in UNION {{formatted[q][name].current.date : name \in DOMAIN formatted[q]} :
                     q \in {"tumor_markers", "complete_blood_count", "metabolic_panel"}} :
        d.t = "str" /\ d \notin {NA, EmptyStr}}

\* C13: summary.last_updated is the lexicographically greatest current.date
\* of the three panels that is not "NA", null or empty, and null when no
\* biomarker has such a date.
Thm_C13_LastUpdated ==
    pc = "format_for_ui" =>
        IF EmittedDates = {} THEN formatted.summary.last_updated = None
        ELSE /\ formatted.summary.last_updated \in EmittedDates
             /\ \A d \in EmittedDates : LexLeq(d.s, formatted.summary.last_updated.s)

\* dates "NA", 2024-01-10, 2024-03-02 and null gave 2024-03-02
Wit_C13_NewestOfFour ==
    /\ pc = "format_for_ui"
    /\ DOMAIN formatted.tumor_markers = {"CEA", "NSE"}
    /\ formatted.tumor_markers["CEA"].current.date = NA
    /\ formatted.tumor_markers["NSE"].current.date = Date0110
    /\ DOMAIN formatted.complete_blood_count = {"WBC"}
    /\ formatted.complete_blood_count["WBC"].current.date = Date0302
    /\ DOMAIN formatted.metabolic_panel = {"ALT"}
    /\ formatted.metabolic_panel["ALT"].current.date = None
    /\ formatted.summary.last_updated = Date0302

----------------------------------------------------------------------------
(* Properties of consolidate_clinical_interpretations *)

\* s without its leading and trailing blanks
Trimmed(s) ==
    LET keep == {i \in 1..Len(s) : s[i] \notin {9, 10, 13, 32}}
    IN  IF keep = {} THEN <<>>
        ELSE SubSeq(s, CHOOSE i \in keep : \A j \in keep : i <= j,
                       CHOOSE i \in keep : \A j \in keep : j <= i)

\* a and b differ at most in the case of their ASCII letters
SameIgnoringCase(a, b) ==
    /\ Len(a) = Len(b)
    /\ \A i \in 1..Len(a) :
          \/ a[i] = b[i]
          \/ a[i] \in 65..90 /\ b[i] = a[i] + 32
          \/ a[i] \in 97..122 /\ b[i] = a[i] - 32

\* the input strings in document order, stripped
StrippedInputs ==
    LET all == Flatten(clinical_interp_list)
    IN  [k \in 1..Len(all) |-> Trimmed(all[k].s)]

\* the positions that hold the first occurrence of a non-empty string
FirstOccurrences(stripped) ==
    {k \in 1..Len(stripped) :
        /\ stripped[k] # <<>>
        /\ \A m \in 1..(k - 1) : ~SameIgnoringCase(stripped[m], stripped[k])}

\* C11: consolidate_clinical_interpretations returns the stripped non-empty
\* strings of the flattened input in first-occurrence order, case-insensitive
\* duplicates removed: no two outputs are equal ignoring case, every stripped
\* non-empty input equals some output ignoring case, and each output is the
\* stripped first occurrence in its own letter case.
Thm_C11_DedupInterpretations ==
    pc = "consolidate_clinical_interpretations" =>
        LET out == unique_interpretations
            stripped == StrippedInputs
            firsts == FirstOccurrences(stripped)
        IN  /\ \A i, j \in 1..Len(out) :
                  SameIgnoringCase(out[i].s, out[j].s) => i = j
            /\ \A k \in 1..Len(stripped) :
                  stripped[k] # <<>> =>
                      \E i \in 1..Len(out) : SameIgnoringCase(out[i].s, stripped[k])
            /\ Len(out) = Cardinality(firsts)
            /\ \A i \in 1..Len(out) :
                  \E k \in firsts :
                      /\ Cardinality({m \in firsts : m <= k}) = i
                      /\ out[i] = Str(stripped[k])

\* [["Mild anemia.", "MILD ANEMIA."], ["Hepatic elevation."]] gave
\* ["Mild anemia.", "Hepatic elevation."]
Wit_C11_ExampleLists ==
    /\ pc = "consolidate_clinical_interpretations"
    /\ clinical_interp_list = <<(<<MildAnemia, MildAnemiaUpper>>), (<<HepaticElevation>>)>>
    /\ unique_interpretations = <<MildAnemia, HepaticElevation>>

----------------------------------------------------------------------------
(* Properties of the pipeline *)

Returned == pc = "process_lab_data_for_ui"

KnownNames(panel_name) ==
    IF panel_name = "tumor_markers" THEN {"CEA", "NSE", "proGRP", "CYFRA_21_1"}
    ELSE IF panel_name = "complete_blood_count" THEN {"WBC", "Hemoglobin", "Platelets", "ANC"}
    ELSE {"Creatinine", "ALT", "AST", "Total Bilirubin"}

\* the panel dicts of one panel handed to consolidate_panel
InputPanels(panel_name) == PanelList(Batches(raw_lab_data), panel_name)

RecordIsEmpty(r) ==
    (IF r.current.present THEN r.current.value ELSE r.value)
        \in {Absent, None, NA, EmptyStr}

\* C3: a known name that is a key of no input panel dict is absent from the
\* consolidated panel; a known name that is a key of some input panel dict
\* but whose records are all empty is present with the all-null current and
\* an empty trend.
Thm_C3_UnseenVsEmpty ==
    Returned =>
        \A panel_name \in PanelNames : \A name \in KnownNames(panel_name) :
            LET panels == InputPanels(panel_name)
                seen == \E i \in 1..Len(panels) : name \in DOMAIN panels[i]
                allEmpty == \A i \in 1..Len(panels) :
                                name \in DOMAIN panels[i] => RecordIsEmpty(panels[i][name])
                out == consolidated_data[panel_name]
            IN  /\ ~seen => name \notin DOMAIN out
                /\ (seen /\ allEmpty) =>
                      /\ name \in DOMAIN out
                      /\ out[name] = [current |-> EmptyCurrent, trend |-> <<>>]

\* NSE was reported, always empty, and is emitted empty; CEA was never
\* reported and is not emitted
Wit_C3_EmptyEmittedUnseenOmitted ==
    /\ Returned
    /\ \E i \in 1..Len(InputPanels("tumor_markers")) :
          "NSE" \in DOMAIN InputPanels("tumor_markers")[i]
    /\ \A i \in 1..Len(InputPanels("tumor_markers")) :
          "CEA" \notin DOMAIN InputPanels("tumor_markers")[i]
    /\ "NSE" \in DOMAIN consolidated_data.tumor_markers
    /\ consolidated_data.tumor_markers["NSE"] = [current |-> EmptyCurrent, trend |-> <<>>]
    /\ "CEA" \notin DOMAIN consolidated_data.tumor_markers

\* a panel dict cut down to the names of its panel's set
KnownKeysOnly(panel, panel_name) ==
    [name \in DOMAIN panel \cap KnownNames(panel_name) |-> panel[name]]

\* a panel dict with one more key that is in no set
WithUnlistedKey(panel) ==
    [name \in DOMAIN panel \cup {"Unlisted"} |->
        IF name \in DOMAIN panel THEN panel[name]
        ELSE Flat(Num(99), Date0302, Critical, QuestMar)]

\* C14: the keys of each consolidated (and formatted) panel are among the
\* panel's fixed names; a key outside the set, such as Total_Bilirubin, never
\* appears, and the panel is what consolidation gives with such keys removed
\* from, or one more added to, every source panel dict.
Thm_C14_OnlyKnownNames ==
    Returned =>
        \A panel_name \in PanelNames :
            LET panels == InputPanels(panel_name)
                names == KnownNames(panel_name)
                removed == [i \in 1..Len(panels) |-> KnownKeysOnly(panels[i], panel_name)]
                added == [i \in 1..Len(panels) |-> WithUnlistedKey(panels[i])]
            IN  /\ DOMAIN consolidated_data[panel_name] \subseteq names
                /\ DOMAIN formatted[panel_name] \subseteq names
                /\ "Total_Bilirubin" \notin DOMAIN formatted[panel_name]
                /\ consolidated_data[panel_name] = consolidate_panel(removed, names).panel
                /\ consolidated_data[panel_name] = consolidate_panel(added, names).panel

\* a document reported ALT and Total_Bilirubin: only ALT is in the
\* consolidated and in the formatted metabolic panel
Wit_C14_UnderscoreDropped ==
    /\ Returned
    /\ \E i \in 1..Len(InputPanels("metabolic_panel")) :
          {"ALT", "Total_Bilirubin"} \subseteq DOMAIN InputPanels("metabolic_panel")[i]
    /\ DOMAIN consolidated_data.metabolic_panel = {"ALT"}
    /\ DOMAIN formatted.metabolic_panel = {"ALT"}

\* the one-element list [d] of the dict d that was given unwrapped
WrappedInput == [kind |-> "list", dict |-> NoBatch, list |-> <<raw_lab_data.dict>>]

\* C16: a single extraction dict d given without a list is processed as [d]:
\* the call raises exactly when postprocess_lab_data([d]) raises and
\* otherwise returns its result.
Thm_C16_SingleDictAsList ==
    (pc # "ready" /\ raw_lab_data.kind = "dict") =>
        \E response \in AIResponses :
            LET of_list == postprocess_lab_data(WrappedInput, use_ai_refinement, response)
            IN  /\ (pc = "raised") = of_list.raised
                /\ Returned => consolidated_data = of_list.data

\* a single dict with a CEA record, not wrapped, gave a CEA entry with data
Wit_C16_DictProcessed ==
    /\ Returned
    /\ raw_lab_data.kind = "dict"
    /\ "CEA" \in DOMAIN formatted.tumor_markers
    /\ formatted.tumor_markers["CEA"].has_data
    /\ Len(formatted.tumor_markers["CEA"].trend) = 1

\* a panel without the records that are no dicts
WellFormedRecords(panel) == [name \in {m \in DOMAIN panel : IsDict(panel[m])} |-> panel[name]]

WellFormedPanel(field) ==
    [field EXCEPT !.dict = WellFormedRecords(@),
                  !.list = [i \in 1..Len(@) |-> WellFormedRecords(@[i])]]

\* a document without its malformed entries: records that are no dicts and
\* interpretations that are no strings
WellFormedBatch(batch) ==
    [batch EXCEPT
        !.tumor_markers = WellFormedPanel(@),
        !.complete_blood_count = WellFormedPanel(@),
        !.metabolic_panel = WellFormedPanel(@),
        !.clinical_interpretation.list = SelectSeq(@, LAMBDA x : x.t = "str")]

WellFormedInput ==
    [raw_lab_data EXCEPT !.dict = WellFormedBatch(@),
                         !.list = [i \in 1..Len(@) |-> WellFormedBatch(@[i])]]

\* C18 (as claimed): whatever panel is no dict, whatever record is null,
\* whatever non-empty record has a null date and whatever interpretation is
\* no string, process_lab_data_for_ui raises nothing and returns the result
\* built from the well-formed entries.
Claim_C18_MalformedSkipped ==
    pc # "ready" =>
        /\ pc # "raised"
        /\ \E response \in AIResponses :
              consolidated_data =
                  postprocess_lab_data(WellFormedInput, use_ai_refinement, response).data

\* the records reported for a name of a panel, in document order
RecordsOf(panel_name, name) == CollectEntries(InputPanels(panel_name), name)

\* the records of a name cannot be merged: one is no dict, or two or more
\* are non-empty and one of these has a null date
Unmergeable(records) ==
    \/ \E i \in 1..Len(records) : ~IsDict(records[i])
    \/ LET nonEmpty == {i \in 1..Len(records) : ~RecordIsEmpty(records[i])}
       IN  /\ Cardinality(nonEmpty) >= 2
           /\ \E i \in nonEmpty :
                  (IF records[i].current.present THEN records[i].current.date
                   ELSE records[i].date) = None

\* some step of the consolidation fails on the input
InputFails ==
    \/ \E panel_name \in PanelNames : \E name \in KnownNames(panel_name) :
          Unmergeable(RecordsOf(panel_name, name))
    \/ \E i \in 1..Len(Batches(raw_lab_data)) :
          LET ci == Batches(raw_lab_data)[i].clinical_interpretation
          IN  ci.kind = "list" /\ \E j \in 1..Len(ci.list) : ci.list[j].t # "str"

\* C19: process_lab_data_for_ui either raises, and then returns nothing, or
\* returns the complete structure: it raises exactly when a step fails on the
\* input, and a returned structure has the three panels, the interpretations
\* and the summary, with an entry for every reported biomarker of the fixed
\* sets, which has data iff one of its records is non-empty.
Thm_C19_AllOrNothing ==
    /\ pc \in {"ready", "process_lab_data_for_ui", "raised"}
    /\ pc # "ready" => ((pc = "raised") = InputFails)
    /\ pc = "raised" => formatted = NoFormatted /\ consolidated_data = NoConsolidated
    /\ (rerun.done /\ rerun.raised) => rerun.formatted = NoFormatted
    /\ Returned =>
          /\ DOMAIN formatted = {"tumor_markers", "complete_blood_count",
                                  "metabolic_panel", "clinical_interpretation", "summary"}
          /\ DOMAIN formatted.summary = {"total_abnormal", "last_updated"}
          /\ \A panel_name \in PanelNames : \A name \in KnownNames(panel_name) :
                LET records == RecordsOf(panel_name, name)
                IN  records # <<>> =>
                        /\ name \in DOMAIN formatted[panel_name]
                        /\ formatted[panel_name][name].has_data =
                              (\E i \in 1..Len(records) : ~RecordIsEmpty(records[i]))

\* a document with a good CEA record and one whose interpretations hold a
\* null: the call raised and returned nothing, not even the CEA entry
Wit_C19_RaisedNothingReturned ==
    /\ pc = "raised"
    /\ raw_lab_data.kind = "list" /\ Len(raw_lab_data.list) = 2
    /\ raw_lab_data.list[1] = TumorOnly(Flat(Num(52), Date0110, Normal, Quest))
    /\ raw_lab_data.list[2].clinical_interpretation =
          Interpretations(<<MildAnemiaPadded, None>>)
    /\ formatted = NoFormatted

Thm_C25_HasDataIffNonEmptyRecord ==
    Returned =>
        \A panel_name \in PanelNames : \A name \in DOMAIN formatted[panel_name] :
            LET out == formatted[panel_name][name]
                records == RecordsOf(panel_name, name)
            IN  /\ ~out.has_data = (\A i \in 1..Len(records) : RecordIsEmpty(records[i]))
                /\ ~out.has_data => out.trend = <<>> /\ ~out.current.is_abnormal
                /\ out.current.is_abnormal => out.has_data

\* the only NSE record has no value but a date and the status High: NSE is
\* reported without data, without trend and not abnormal, while CEA of the
\* same document has data and is abnormal
Wit_C25_EmptyHighRecord ==
    /\ Returned
    /\ Len(RecordsOf("tumor_markers", "NSE")) = 1
    /\ RecordsOf("tumor_markers", "NSE")[1] = Flat(NA, Date0302, High, EmptyStr)
    /\ ~formatted.tumor_markers["NSE"].has_data
    /\ formatted.tumor_markers["NSE"].trend = <<>>
    /\ ~formatted.tumor_markers["NSE"].current.is_abnormal
    /\ formatted.tumor_markers["CEA"].has_data
    /\ formatted.tumor_markers["CEA"].current.is_abnormal

\* the current, trend and trend_direction of every biomarker of an output
Consolidated(out) ==
    [panel_name \in PanelNames |->
        [name \in DOMAIN out[panel_name] |->
            [current |-> out[panel_name][name].current,
             trend |-> out[panel_name][name].trend,
             trend_direction |-> out[panel_name][name].trend_direction]]]

\* C24 (as claimed): the documents supplied in any other order give the same
\* current, trend and trend_direction for every biomarker.
Claim_C24_OrderIndependent ==
    (rerun.done /\ ~use_ai_refinement) =>
        /\ rerun.raised = (pc = "raised")
        /\ Returned => Consolidated(rerun.formatted) = Consolidated(formatted)

\* no biomarker has two records with the same date (a missing date read as
\* "", as the sort of merge_biomarker_data reads it) that differ in a field
RecordsAgreePerDate ==
    \A panel_name \in PanelNames : \A name \in KnownNames(panel_name) :
        LET records == RecordsOf(panel_name, name)
        IN  \A i, j \in 1..Len(records) :
                SortDate(records[i]) = SortDate(records[j]) =>
                    EffectiveData(records[i]) = EffectiveData(records[j])

\* C24 (amended): the order of the documents does not matter when, for every
\* biomarker, the records of one date agree in all their fields; whether the
\* call raises never depends on the order.
Thm_C24_OrderIndependentPerDate ==
    (rerun.done /\ ~use_ai_refinement) =>
        /\ rerun.raised = (pc = "raised")
        /\ (Returned /\ RecordsAgreePerDate) =>
              Consolidated(rerun.formatted) = Consolidated(formatted)

\* three documents, two of them the same, given in another order after the
\* first call: CEA has the same two-point increasing trend both times
Wit_C24_ReorderedSameResult ==
    /\ Returned /\ rerun.done /\ ~rerun.raised
    /\ RecordsAgreePerDate
    /\ Len(raw_lab_data.list) = 3
    /\ raw_lab_data.list[1] = TumorOnly(Flat(Num(81), Date0302, High, Quest))
    /\ raw_lab_data.list[2] = TumorOnly(Flat(Num(52), Date0110, Normal, QuestJan))
    /\ raw_lab_data.list[3] = raw_lab_data.list[1]
    /\ Len(formatted.tumor_markers["CEA"].trend) = 2
    /\ formatted.tumor_markers["CEA"].trend_direction = Increasing
    /\ rerun.formatted.tumor_markers["CEA"] = formatted.tumor_markers["CEA"]

\* the outcome of the first call, in the form the second call is recorded in
FirstOutcome ==
    [done |-> TRUE, raised |-> pc = "raised", formatted |-> formatted]

ScenarioDocs ==
    <<TumorOnly(Flat(Num(52), Date0110, Normal, QuestJan)),
      TumorOnly(Flat(Num(52), Date0110, Normal, Quest)),
      TumorOnly(Flat(Num(81), Date0302, High, QuestMar))>>

\* raw_lab_data is three CEA-only documents: i and j duplicate an older
\* positive value, k reports a value more than 5% higher, later, status High
DuplicatesThenHigher(i, j, k) ==
    LET docs == raw_lab_data.list
        r(m) == docs[m].tumor_markers.dict["CEA"]
    IN  /\ raw_lab_data.kind = "list" /\ Len(docs) = 3
        /\ {i, j, k} = {1, 2, 3} /\ i < j
        /\ \A m \in 1..3 : docs[m].tumor_markers.kind = "dict"
        /\ \A m \in 1..3 : DOMAIN docs[m].tumor_markers.dict = {"CEA"}
        /\ \A m \in 1..3 : docs[m] = TumorOnly(r(m))
        /\ \A m \in 1..3 : r(m).value.t = "num" /\ r(m).date.t = "str"
        /\ r(i).date = r(j).date /\ r(i).value = r(j).value
        /\ r(i).value.n > 0
        /\ LexLeq(r(i).date.s, r(k).date.s) /\ r(i).date # r(k).date
        /\ 100 * (r(k).value.n - r(i).value.n) > 5 * r(i).value.n
        /\ r(k).status = High

\* C10: the three CEA documents (5.2, 2024-01-10, Normal, "Quest Jan"),
\* (5.2, 2024-01-10, Normal, "Quest"), (8.1, 2024-03-02, High, "Quest Mar")
\* give a trend of exactly two points, the first carrying "Quest Jan", with
\* current.value 8.1, is_abnormal true and trend_direction increasing; the
\* same holds for any two duplicates of an older value plus a newer value
\* more than 5% higher with status High, the longer source_context being kept.
Thm_C10_Scenario ==
    pc # "ready" =>
        /\ (raw_lab_data.kind = "list" /\ raw_lab_data.list = ScenarioDocs) =>
              /\ Returned
              /\ formatted.tumor_markers["CEA"].trend =
                    <<[date |-> Date0110, value |-> Num(52), status |-> Normal,
                       source_context |-> QuestJan],
                      [date |-> Date0302, value |-> Num(81), status |-> High,
                       source_context |-> QuestMar]>>
              /\ formatted.tumor_markers["CEA"].current.value = Num(81)
              /\ formatted.tumor_markers["CEA"].current.is_abnormal
              /\ formatted.tumor_markers["CEA"].trend_direction = Increasing
        /\ \A i, j, k \in 1..3 :
              DuplicatesThenHigher(i, j, k) =>
                  LET docs == raw_lab_data.list
                      r(m) == docs[m].tumor_markers.dict["CEA"]
                      out == formatted.tumor_markers["CEA"]
                  IN  /\ Returned
                      /\ Len(out.trend) = 2
                      /\ out.trend[1].date = r(i).date /\ out.trend[1].value = r(i).value
                      /\ out.trend[1].source_context \in {r(i).source_context, r(j).source_context}
                      /\ Len(out.trend[1].source_context.s) >= Len(r(i).source_context.s)
                      /\ Len(out.trend[1].source_context.s) >= Len(r(j).source_context.s)
                      /\ out.trend[2].date = r(k).date /\ out.trend[2].value = r(k).value
                      /\ out.current.value = r(k).value
                      /\ out.current.is_abnormal
                      /\ out.trend_direction = Increasing

\* the scenario's documents were processed and gave the stated CEA entry
Wit_C10_ScenarioProcessed ==
    /\ Returned
    /\ raw_lab_data.kind = "list" /\ raw_lab_data.list = ScenarioDocs
    /\ Len(formatted.tumor_markers["CEA"].trend) = 2
    /\ formatted.tumor_markers["CEA"].trend[1].source_context = QuestJan
    /\ formatted.tumor_markers["CEA"].current.value = Num(81)
    /\ formatted.tumor_markers["CEA"].current.is_abnormal
    /\ formatted.tumor_markers["CEA"].trend_direction = Increasing

----------------------------------------------------------------------------
(* Properties of the data pool *)

\* the arguments of the last store_patient_data call pass the validation
ValidStoreArguments ==
    /\ store_call.mrn.t = "str" /\ Trimmed(store_call.mrn.s) # <<>>
    /\ store_call.data # None
    /\ store_call.data.kind = "dict" /\ store_call.data.size > 0

\* what a store_patient_data step does to the table, given what it returned
StoreEffect ==
    IF store_call'.returned
    THEN /\ \E r \in data_pool' : r.mrn = store_call'.mrn /\ r.data = store_call'.data
         /\ \A r, q \in data_pool' : r.mrn = q.mrn => r = q
         /\ {r \in data_pool' : r.mrn # store_call'.mrn}
               = {r \in data_pool : r.mrn # store_call'.mrn}
    ELSE data_pool' = data_pool

\* C30 (as claimed): store_patient_data returns False and leaves the pool
\* unchanged when the MRN is empty, whitespace-only or no string or the data
\* is empty or no dict; otherwise it returns True and the pool then holds
\* exactly one record for the MRN, with the new data, the others unchanged.
Claim_C30_ValidatedUpsert ==
    [][pc' = "store_patient_data" =>
          /\ store_call'.returned = ValidStoreArguments'
          /\ StoreEffect]_vars

\* C30 (amended): invalid arguments give False; valid arguments give True
\* unless json.dumps rejects the dict or the database write fails, which
\* give False as well; False leaves the pool unchanged and True leaves
\* exactly one record for the MRN, with the new data, the others unchanged.
Thm_C30_ValidatedUpsertOrFailure ==
    [][pc' = "store_patient_data" =>
          /\ store_call'.returned =
                (ValidStoreArguments' /\ store_call'.data.json /\ store_call'.db_ok)
          /\ StoreEffect]_vars

\* "123" was stored again, with the second extraction result: it has one
\* record, holding that result, beside the records of " 123 " and "456"
Wit_C30_Replaced ==
    /\ pc = "store_patient_data"
    /\ store_call = [mrn |-> Str(<<49, 50, 51>>),
                     data |-> [kind |-> "dict", size |-> 1, json |-> TRUE, id |-> 2],
                     db_ok |-> TRUE, returned |-> TRUE]
    /\ Cardinality(data_pool) = 3
    /\ \A r \in data_pool : r.mrn = Str(<<49, 50, 51>>) => r.data.id = 2
    /\ \E r \in data_pool : r.mrn = Str(<<32, 49, 50, 51, 32>>) /\ r.data.id = 1

----------------------------------------------------------------------------
(* Properties of POST /api/patient/all *)

HasRow(rows, mrn) == \E row \in rows : row.mrn = mrn

\* request r has taken its first step: the pool was read
Received(r) == requests[r].state = "idle" /\ requests'[r].state # "idle"

\* request r has taken its second step and answered with the result
Completed(r) == requests[r].state = "extracting" /\ requests'[r].state = "returned"

\* a row stays until it is deleted or the pool is cleared
RowsStay ==
    \A row \in data_pool :
        pc' \notin {"delete_patient_data", "clear_pool"} => HasRow(data_pool', row.mrn)

Claim_C28_ExtractionAtMostOnce ==
    \A r, q \in 1..MaxRequests :
        (/\ r # q
         /\ requests[r].state = "extracting" /\ requests[q].state = "extracting"
         /\ requests[r].read_ok /\ requests[q].read_ok)
            => requests[r].mrn # requests[q].mrn

----------------------------------------------------------------------------
(* Properties of process_individual_lab_results_gemini *)

\* C29: a document that fails does not stop the loop, and when the loop has
\* ended processed_documents + len(errors) = total_documents,
\* len(individual_results) = processed_documents, the results are those of
\* the documents that did not fail, and a returned combined_data is null
\* when no document was processed.
Thm_C29_LoopBookkeeping ==
    LET metadata == lab_run.metadata
        total == Len(lab_run.lab_documents)
        ended == lab_run.state \in {"returned", "raised"}
                    \/ (lab_run.state = "loop" /\ lab_run.idx = total)
    IN  /\ lab_run.state = "loop" =>
              metadata.processed_documents + Len(metadata.errors) = lab_run.idx
        /\ ended =>
              /\ metadata.total_documents = total
              /\ metadata.processed_documents + Len(metadata.errors)
                    = metadata.total_documents
              /\ Len(lab_run.individual_results) = metadata.processed_documents
              /\ \A i \in 1..total :
                    (lab_run.lab_documents[i].fails = "none") =
                        (\E k \in 1..Len(lab_run.individual_results) :
                            lab_run.individual_results[k].document_index = i)
        /\ (lab_run.state = "returned" /\ metadata.processed_documents = 0) =>
              lab_run.combined_data = None

\* the first document could not be fetched and the third not validated: the
\* second was processed all the same, and the run returned its data
Wit_C29_FailuresAroundSuccess ==
    /\ lab_run.state = "returned"
    /\ Len(lab_run.lab_documents) = 3
    /\ lab_run.lab_documents[1].fails = "fetch_individual_pdf_bytes"
    /\ lab_run.lab_documents[2].fails = "none"
    /\ lab_run.lab_documents[3].fails = "validate_extraction"
    /\ lab_run.metadata.processed_documents = 1
    /\ lab_run.metadata.errors = <<1, 3>>
    /\ lab_run.individual_results[1].document_index = 2
    /\ lab_run.combined_data # None

====
